---- MODULE Spec2Model ----
(***************************************************************************)
(* D-Scope indexer (backend/ci-indexer.ts): one invocation of main() reads *)
(* state.json, scans factory logs (Pass 1) and survey logs (Pass 2) in     *)
(* batches, enriches and verifies funding, and writes its artifacts.       *)
(***************************************************************************)
EXTENDS Integers, Sequences, FiniteSets, TLC

\* ------------------------------------------------------------ bounds
MaxRuns == 3        \* invocations of main() in one behaviour
MaxDisturb == 2     \* lost log queries + funding submissions + manual cursor resets
TickSec == 50       \* seconds of wall clock between two invocations
MaxSubmits == 2     \* submit requests received by the attester service
MaxInflight == 2    \* submit requests waiting for their handler at the same time
MaxQuestions == 2   \* questions added to the Survey contract
MaxCasts == 3       \* broadcasts to the event streams
MaxCards == 2       \* survey cards of the list pushed to the admin API
MaxCrashes == 1     \* invocations of main() that are interrupted

\* ------------------------------------------------------------ configuration
BATCH == 1000
CHUNK == 50
START == 0
ONLY_LAST == 0
MIN_CONF == 2
TREASURY_SAFE == "treasury"
FACTORIES == <<"F1">>

\* ------------------------------------------------------------ the ledger source
\* Heights the provider may report as the latest block.
LatestChoices == {750, 1500}
\* nowSec() during the n-th invocation
nowSec(n) == n * TickSec

\* The logs on chain, in (block, log index) order. F9 is a factory the indexer is not
\* configured with and s9 a survey it deployed.
ChainLogs ==
  << [address |-> "F9", blockNumber |-> 300, name |-> "SurveyDeployed",
      survey |-> "s9", creator |-> "c9", startTime |-> 50, endTime |-> 130],
     [address |-> "F1", blockNumber |-> 400, name |-> "SurveyDeployed",
      survey |-> "s1", creator |-> "c1", startTime |-> 50, endTime |-> 130],
     [address |-> "s1", blockNumber |-> 400, name |-> "PrizeFunded",
      funder |-> "c1", amount |-> 2],
     [address |-> "s1", blockNumber |-> 900, name |-> "Voted", voter |-> "v1"],
     [address |-> "s9", blockNumber |-> 950, name |-> "Voted", voter |-> "v1"],
     [address |-> "F1", blockNumber |-> 1200, name |-> "SurveyDeployed",
      survey |-> "s2", creator |-> "c1", startTime |-> 125, endTime |-> 400],
     [address |-> "s2", blockNumber |-> 1250, name |-> "Voted", voter |-> "v1"],
     [address |-> "s1", blockNumber |-> 1300, name |-> "PrizeFunded",
      funder |-> "c2", amount |-> 3],
     [address |-> "s9", blockNumber |-> 1350, name |-> "PrizeFunded",
      funder |-> "c9", amount |-> 7],
     [address |-> "s1", blockNumber |-> 1400, name |-> "Finalized"],
     [address |-> "s1", blockNumber |-> 1450, name |-> "PrizeSwept",
      to |-> "c1", amount |-> 1] >>

SurveyAddrs == {"s1", "s2"}
Voters == {"v1"}

\* provider.getBlock(n).timestamp
BlockTimestamp(n) == n \div 10

\* Transactions a funding submission may point at: getTransaction / getTransactionReceipt.
TxTable ==
  [ txGood    |-> [to |-> "treasury", from |-> "c1", value |-> 5, status |-> 1, blockNumber |-> 500],
    txGood2   |-> [to |-> "treasury", from |-> "c1", value |-> 6, status |-> 1, blockNumber |-> 600],
    txBadTo   |-> [to |-> "other",    from |-> "c1", value |-> 5, status |-> 1, blockNumber |-> 500],
    txBadFrom |-> [to |-> "treasury", from |-> "c2", value |-> 5, status |-> 1, blockNumber |-> 500],
    txLow     |-> [to |-> "treasury", from |-> "c1", value |-> 4, status |-> 1, blockNumber |-> 500],
    txFailed  |-> [to |-> "treasury", from |-> "c1", value |-> 5, status |-> 0, blockNumber |-> 500],
    txShallow |-> [to |-> "treasury", from |-> "c1", value |-> 5, status |-> 1, blockNumber |-> 1500] ]
TxIds == DOMAIN TxTable

\* plannedRewardWei of the off-chain metadata document of a survey ("0" when absent).
MetaPlannedWei(s) == IF s = "s1" THEN 5 ELSE 0

\* ------------------------------------------------------------ state
VARIABLES
  stateFile,    \* state.json: [lastBlock, updatedAt]
  ledgerFile,   \* ledger.ndjson: sequence of records
  balFile,      \* balances.json
  survFile,     \* surveys.json: [order, rec]
  listFile,     \* surveys.list.json: sequence of cards
  gatesFile,    \* gates.json
  fundingDir,   \* funding/<chain>/<survey>.json: survey -> txHash or "none"
  pc,           \* position of main()
  latest, fromBlock, toBlock, f,
  balances, surveys, knownSurveyAddrs, now,
  runs, disturb,                         \* bound counters
  stateRead,    \* state.lastBlock as read at the start of the invocation
  folded,       \* indices of ChainLogs handed to the reducer at least once
  inRange,      \* indices of ChainLogs inside some invocation's [fromBlock, toBlock]
  discFailAt,   \* lowest batch start of this invocation whose Pass 1 logs were lost (0: none)
  lostQuery,    \* some log query of some invocation returned nothing because it failed
  pubGen,       \* file -> number of the invocation that wrote it last
  replay, snap, \* re-scan bookkeeping of a manual cursor reset
  stIn, stOut,  \* computeStatus arguments and result
  peopleFile,   \* people/<survey>.json: survey -> sequence of Person
  anaFile,      \* analytics/<survey>.json: survey -> Analytics
  sseSubs,      \* connection -> survey whose subscriber set holds it ("" when in none)
  conn,         \* connection -> "new" | "open" | "closed"
  streams,      \* connection -> payloads written to it
  clock,        \* index in ClockTicks of the current instant
  inflight,     \* submit requests received and not yet handled
  stale,        \* the stores as the handler run last found them
  last,         \* the request handled last and its response
  nArrived,     \* submit requests received
  overlapped,   \* some request arrived while another was waiting
  serialPeople, serialAna,  \* the stores of a service that takes the requests one at a time
  lastBy,       \* (survey, pseudonym) -> the accepted request handled last for it
  rawSeen,      \* raw birthday and country values of the requests handled
  signLast, signPrev, \* the last two answered sign requests: [req, at, resp]
  storage,      \* the storage of one deployed Survey contract
  isEligible,   \* the gate's isEligible[user][survey] for that survey: the users set true
  blockTime,    \* index in BlockTimes of block.timestamp
  lastTx,       \* the transaction executed last: [fn, sender, ok]
  ctorArgs,     \* the arguments the contract was constructed with
  voted,        \* the addresses whose vote transaction succeeded
  env,          \* what the indexer process is started with: [START, ONLY_LAST] of its
                \* environment and whether the provider behind RPC applies address filters
  sseOrder,     \* the connections held by the subscriber sets, in the order they were added
  cast,         \* the broadcast made last: [n, survey, payload, failing]
  boot,         \* how the process under study was started: [proc, cfg, stage, outputs,
                \* dirs, served]
  push,         \* the push to the admin API at the end of an invocation
  norm,         \* one timestamp field of one survey record through the invocations:
                \* [field, src, stored, listed, runs]
  crash,        \* the interruptions of main(): [n, at] with the position of the last one
  life,         \* one survey through the published lists: [rec, now, status, fin, lists]
  fund,         \* funding verification on its own: [surveys, dir, ledger, passes, subs]
  gateSt,       \* one deployed eligibility gate: [gate, time, issued, call]
  metaSt,       \* one survey's metadata through the invocations: [file, metaHash, rec, before, runs]
  tsIn, tsOut,  \* toSec on its own: the argument, and <<result>> once it has returned
  scan          \* the current invocation's record: the log queries issued, the logs the
                \* last one returned, the logs handed to Pass 2, whether a query was lost,
                \* the ledger length at the start and at the end of each pass

fileVars == <<stateFile, ledgerFile, balFile, survFile, listFile, gatesFile, fundingDir>>
memVars == <<pc, latest, fromBlock, toBlock, f, balances, surveys, knownSurveyAddrs, now>>
ghostVars == <<runs, disturb, stateRead, folded, inRange, discFailAt,
               lostQuery, pubGen, replay, snap, scan>>
stVars == <<stIn, stOut>>
storeVars == <<peopleFile, anaFile>>
sseVars == <<sseSubs, conn, streams>>
attGhost == <<inflight, stale, last, nArrived, overlapped, serialPeople, serialAna, lastBy, rawSeen>>
signVars == <<signLast, signPrev>>
attVars == <<storeVars, sseVars, clock, attGhost, signVars>>
conVars == <<storage, isEligible, blockTime, lastTx, ctorArgs, voted>>
castVars == <<sseOrder, cast>>
procVars == <<boot, push>>
lateVars == <<norm, metaSt, crash, life, fund, gateSt>>
earlyVars == <<conVars, env, castVars, procVars, tsIn, tsOut, fileVars, memVars, ghostVars,
               stVars, attVars>>
notNorm == <<metaSt, crash, life, fund, gateSt>>
notMeta == <<norm, crash, life, fund, gateSt>>
notCrash == <<norm, metaSt, life, fund, gateSt>>
notLife == <<norm, metaSt, crash, fund, gateSt>>
notFund == <<norm, metaSt, crash, life, gateSt>>
notGate == <<norm, metaSt, crash, life, fund>>
tsVars == <<tsIn, tsOut, lateVars>>
extVars == <<conVars, env, castVars, procVars, tsVars>>
vars == <<fileVars, memVars, ghostVars, stVars, attVars, extVars>>

\* ------------------------------------------------------------ helpers
Max(a, b) == IF a >= b THEN a ELSE b
Min(a, b) == IF a <= b THEN a ELSE b
Range(s) == {s[i] : i \in 1..Len(s)}

\* n > 2e10, written with numbers TLC can hold: 2e10 = 20000000 * 1000
Above2e10(n) == \/ n \div 1000 > 20000000
                \/ n \div 1000 = 20000000 /\ n % 1000 > 0

\* toSec: values above 2e10 are milliseconds
toSec(x) == IF Above2e10(x) THEN x \div 1000 ELSE x

\* Millisecond timestamps are beyond the integers TLC holds. A wide number is the pair
\* <<thousands, units>> standing for thousands * 1000 + units, with 0 <= units < 1000.
Wide(thousands, units) == <<thousands, units>>
WideOf(n) == Wide(n \div 1000, n % 1000)
ValueOf(w) == w[1] * 1000 + w[2]

\* the threshold test taking 2e10 itself for milliseconds
AtOrAbove2e10Wide(w) == w[1] >= 20000000

\* n > 2e10 on a wide number
Above2e10Wide(w) == \/ w[1] > 20000000
                    \/ w[1] = 20000000 /\ w[2] > 0

\* toSec on a wide number: Math.floor(n / 1000) is its thousands
toSecWide(w) == IF Above2e10Wide(w) THEN WideOf(w[1]) ELSE w

\* Source values of any size: Big(a, b, c) stands for a * 10^6 + b * 10^3 + c with
\* 0 <= b, c < 1000.
Big(millions, thousands, units) == <<millions, thousands, units>>

\* n > 2e10 on a big number
Above2e10Big(x) == \/ x[1] > 20000
                   \/ x[1] = 20000 /\ (x[2] > 0 \/ x[3] > 0)

\* toSec on a big number: Math.floor(n / 1000) drops the units
toSecBig(x) == IF Above2e10Big(x) THEN Big(x[1] \div 1000, x[1] % 1000, x[2]) ELSE x

\* An optional number is <<>> (null / undefined) or <<n>>.
Null == <<>>
Truthy(x) == x # Null /\ x[1] # 0

\* computeStatus without its first test (if (f) return "past")
computeStatusIgnoresFinalized(startSec, endSec, finalizedSec, nowArg) ==
  LET s == IF Truthy(startSec) /\ startSec[1] > 0 THEN startSec ELSE Null
      e == IF Truthy(endSec) /\ endSec[1] > 0 THEN endSec ELSE Null
  IN  IF Truthy(e) /\ nowArg >= e[1] THEN "past"
      ELSE IF Truthy(s) /\ nowArg < s[1] THEN "upcoming"
      ELSE "active"

\* computeStatus with the end test strict (now > end)
computeStatusStrictEnd(startSec, endSec, finalizedSec, nowArg) ==
  LET s == IF Truthy(startSec) /\ startSec[1] > 0 THEN startSec ELSE Null
      e == IF Truthy(endSec) /\ endSec[1] > 0 THEN endSec ELSE Null
      fin == IF Truthy(finalizedSec) /\ finalizedSec[1] > 0 THEN finalizedSec ELSE Null
  IN  IF Truthy(fin) THEN "past"
      ELSE IF Truthy(e) /\ nowArg > e[1] THEN "past"
      ELSE IF Truthy(s) /\ nowArg < s[1] THEN "upcoming"
      ELSE "active"

computeStatus(startSec, endSec, finalizedSec, nowArg) ==
  LET s == IF Truthy(startSec) /\ startSec[1] > 0 THEN startSec ELSE Null
      e == IF Truthy(endSec) /\ endSec[1] > 0 THEN endSec ELSE Null
      fin == IF Truthy(finalizedSec) /\ finalizedSec[1] > 0 THEN finalizedSec ELSE Null
  IN  IF Truthy(fin) THEN "past"
      ELSE IF Truthy(e) /\ nowArg >= e[1] THEN "past"
      ELSE IF Truthy(s) /\ nowArg < s[1] THEN "upcoming"
      ELSE "active"

\* appendLedger as a rewrite of the file instead of an append
appendLedgerRewrites(ledger, o) == <<o>>

appendLedger(ledger, o) == Append(ledger, o)


\* ------------------------------------------------------------ ledger source queries
LogIndices == [i \in 1..Len(ChainLogs) |-> i]

\* provider.getLogs({fromBlock, toBlock, address}): indices into ChainLogs, chain order;
\* a provider that does not apply the address filter returns every log of the range
getLogs(lo, hi, addrs) ==
  SelectSeq(LogIndices, LAMBDA i : /\ ChainLogs[i].blockNumber >= lo
                                   /\ ChainLogs[i].blockNumber <= hi
                                   /\ (env.providerFilters => ChainLogs[i].address \in addrs))

\* The per-address fallback: one query per address, in order; a failed one adds nothing.
RECURSIVE perAddressLogs(_, _, _, _)
perAddressLogs(addrs, okSet, lo, hi) ==
  IF addrs = <<>> THEN <<>>
  ELSE (IF Head(addrs) \in okSet THEN getLogs(lo, hi, {Head(addrs)}) ELSE <<>>)
       \o perAddressLogs(Tail(addrs), okSet, lo, hi)

\* ------------------------------------------------------------ the reducer
NewRec ==
  [creator |-> "", start |-> 0, end |-> 0, createdAt |-> 0, funded |-> FALSE,
   fundingTxHash |-> "null", prizeFunded |-> 0, prizeSwept |-> 0,
   plannedRewardWei |-> 0, finalizedAt |-> 0]

RecOf(sv, a) == IF a \in DOMAIN sv.rec THEN sv.rec[a] ELSE NewRec

\* surveys[a] = r, keeping the object's key order
PutRec(sv, a, r) ==
  [order |-> IF a \in DOMAIN sv.rec THEN sv.order ELSE Append(sv.order, a),
   rec |-> [x \in DOMAIN sv.rec \cup {a} |-> IF x = a THEN r ELSE sv.rec[x]]]

\* knownSurveyAddrs.add(a)
AddKnown(known, a) == IF a \in Range(known) THEN known ELSE Append(known, a)

\* Pass 1 upsert of a SurveyDeployed log
DeployedRecord(old, l, ts) ==
  [old EXCEPT !.creator = l.creator,
              !.start = toSec(l.startTime),
              !.end = toSec(l.endTime),
              !.funded = old.funded,
              !.fundingTxHash = old.fundingTxHash,
              !.createdAt = IF old.createdAt # 0 THEN old.createdAt ELSE ts]

\* the address test letting every log through
OfInterestAny(addr, wanted) == TRUE

\* FACTORIES.includes(addr) / knownSurveyAddrs.has(addr)
OfInterest(addr, wanted) == addr \in Range(wanted)

\* Pass 1 body for one log; st = [surveys, known, ledger]
Pass1Log(st, i) ==
  LET l == ChainLogs[i]
      ts == BlockTimestamp(l.blockNumber)
  IN  IF ~OfInterest(l.address, FACTORIES) THEN st
      ELSE IF l.name = "SurveyDeployed"
      THEN [surveys |-> PutRec(st.surveys, l.survey,
                               DeployedRecord(RecOf(st.surveys, l.survey), l, ts)),
            known |-> AddKnown(st.known, l.survey),
            ledger |-> appendLedger(st.ledger,
                         [t |-> "SurveyDeployed", survey |-> l.survey, creator |-> l.creator,
                          start |-> toSec(l.startTime), end |-> toSec(l.endTime),
                          block |-> l.blockNumber, ts |-> ts])]
      ELSE st

RECURSIVE Pass1Fold(_, _)
Pass1Fold(st, logs) ==
  IF logs = <<>> THEN st ELSE Pass1Fold(Pass1Log(st, Head(logs)), Tail(logs))

\* balances[voter] = (balances[voter] || 0) + 1
VotedBalances(bal, voter) == [bal EXCEPT ![voter] = bal[voter] + 1]

\* prizeFunded = prevFund + amount
FundedRecord(old, amount) == [old EXCEPT !.prizeFunded = old.prizeFunded + amount]

\* prizeSwept = prevSweep + amount
SweptRecord(old, amount) == [old EXCEPT !.prizeSwept = old.prizeSwept + amount]

\* Pass 2 body for one log; st = [surveys, balances, ledger]
Pass2Log(st, known, i) ==
  LET l == ChainLogs[i]
      addr == l.address
      ts == BlockTimestamp(l.blockNumber)
      old == RecOf(st.surveys, addr)
  IN  IF ~OfInterest(addr, known) THEN st
      ELSE IF l.name = "Voted"
      THEN [st EXCEPT !.balances = VotedBalances(st.balances, l.voter),
                      !.ledger = appendLedger(st.ledger,
                         [t |-> "Voted", survey |-> addr, voter |-> l.voter,
                          block |-> l.blockNumber, ts |-> ts])]
      ELSE IF l.name = "Finalized"
      THEN [st EXCEPT !.surveys = PutRec(st.surveys, addr, [old EXCEPT !.finalizedAt = ts]),
                      !.ledger = appendLedger(st.ledger,
                         [t |-> "Finalized", survey |-> addr,
                          block |-> l.blockNumber, ts |-> ts])]
      ELSE IF l.name = "PrizeFunded"
      THEN [st EXCEPT !.surveys = PutRec(st.surveys, addr, FundedRecord(old, l.amount)),
                      !.ledger = appendLedger(st.ledger,
                         [t |-> "PrizeFunded", survey |-> addr, funder |-> l.funder,
                          amount |-> l.amount, block |-> l.blockNumber, ts |-> ts])]
      ELSE IF l.name = "PrizeSwept"
      THEN [st EXCEPT !.surveys = PutRec(st.surveys, addr, SweptRecord(old, l.amount)),
                      !.ledger = appendLedger(st.ledger,
                         [t |-> "PrizeSwept", survey |-> addr, to |-> l.to,
                          amount |-> l.amount, block |-> l.blockNumber, ts |-> ts])]
      ELSE st

RECURSIVE Pass2Fold(_, _, _)
Pass2Fold(st, known, logs) ==
  IF logs = <<>> THEN st ELSE Pass2Fold(Pass2Log(st, known, Head(logs)), known, Tail(logs))

\* ------------------------------------------------------------ enrichment, backfill, funding
\* Metadata join: the record takes plannedRewardWei from the metadata document.
RECURSIVE EnrichAll(_, _)
EnrichAll(sv, addrs) ==
  IF addrs = <<>> THEN sv
  ELSE LET a == Head(addrs)
       IN  EnrichAll(PutRec(sv, a, [RecOf(sv, a) EXCEPT !.plannedRewardWei = MetaPlannedWei(a)]),
                     Tail(addrs))

\* Backfill / normalisation of the timestamps of every record (schedule present: the
\* else branch, then createdAt and finalizedAt).
BackfillRec(r) ==
  [r EXCEPT !.start = toSec(r.start), !.end = toSec(r.end),
            !.createdAt = toSec(r.createdAt), !.finalizedAt = toSec(r.finalizedAt)]

\* getTransaction / getTransactionReceipt: known to the provider once mined below its head
TxVisible(tx, head) == TxTable[tx].blockNumber <= head

Confirmations(tx, head) == head - TxTable[tx].blockNumber + 1

\* The acceptance test without the sender check
FundingAcceptsAnySender(rec, tx, head) ==
  /\ TxVisible(tx, head)
  /\ TxTable[tx].status = 1
  /\ Confirmations(tx, head) >= MIN_CONF
  /\ TxTable[tx].to = TREASURY_SAFE
  /\ TxTable[tx].value >= rec.plannedRewardWei

\* The acceptance test of one funding submission against its survey record
FundingAccepts(rec, tx, head) ==
  /\ TxVisible(tx, head)
  /\ TxTable[tx].status = 1
  /\ Confirmations(tx, head) >= MIN_CONF
  /\ TxTable[tx].to = TREASURY_SAFE
  /\ TxTable[tx].from = rec.creator
  /\ TxTable[tx].value >= rec.plannedRewardWei

\* The skip test without the "already funded" check
FundingSkipsIgnoresFunded(sv, a) ==
  \/ a \notin DOMAIN sv.rec
  \/ sv.rec[a].plannedRewardWei = 0

\* The record is skipped before any lookup
FundingSkips(sv, a) ==
  \/ a \notin DOMAIN sv.rec
  \/ sv.rec[a].funded
  \/ sv.rec[a].plannedRewardWei = 0

\* One submission of the funding loop; st = [surveys, ledger]
FundingSub(st, a, tx, head) ==
  IF FundingSkips(st.surveys, a) THEN st
  ELSE LET rec == st.surveys.rec[a]
       IN  IF FundingAccepts(rec, tx, head)
           THEN [surveys |-> PutRec(st.surveys, a,
                                    [rec EXCEPT !.funded = TRUE, !.fundingTxHash = tx]),
                 ledger |-> appendLedger(st.ledger,
                              [t |-> "TreasuryFunded", survey |-> a, from |-> TxTable[tx].from,
                               to |-> TxTable[tx].to, amount |-> TxTable[tx].value,
                               planned |-> rec.plannedRewardWei, tx |-> tx,
                               confirmed |-> Confirmations(tx, head)])]
           ELSE st

\* readFundingSubmissions: the files of fundingDir in directory order
SubmissionOrder == <<"s1", "s2">>

RECURSIVE FundingLoop(_, _, _, _)
FundingLoop(st, dir, subs, head) ==
  IF subs = <<>> THEN st
  ELSE LET a == Head(subs)
       IN  FundingLoop(IF dir[a] = "none" THEN st ELSE FundingSub(st, a, dir[a], head),
                       dir, Tail(subs), head)

\* One card of surveys.list.json
Card(a, r, nowArg) ==
  LET startSec == IF r.start # 0 THEN toSec(r.start) ELSE 0
      endSec == toSec(r.end)
      finalizedSec == IF r.finalizedAt # 0 THEN toSec(r.finalizedAt) ELSE 0
      opt(x) == IF x # 0 THEN <<x>> ELSE Null
  IN  [address |-> a, startSec |-> startSec, endSec |-> endSec, finalizedSec |-> finalizedSec,
       status |-> computeStatus(opt(startSec), opt(endSec), opt(finalizedSec), nowArg),
       prizeFunded |-> r.prizeFunded, prizeSwept |-> r.prizeSwept,
       funded |-> r.funded, fundingTxHash |-> r.fundingTxHash]

CardList(sv, nowArg) == [i \in 1..Len(sv.order) |-> Card(sv.order[i], sv.rec[sv.order[i]], nowArg)]

\* ------------------------------------------------------------ attester service: inputs
\* (backend attester server, merge-by-nullifier version)
\* Strings stand for the values a request can carry: "0xA1" a checksummed survey address,
\* "0xa1" its lower-case form, "0xN1" a 0x + 64 hex digit pseudonym with upper-case digits.
toLowerCase(s) ==
  CASE s = "0xA1" -> "0xa1"
    [] s = "0xN1" -> "0xn1"
    [] s = "0xU1" -> "0xu1"
    [] s = "0xG2" -> "0xg2"
    [] OTHER -> s

toUpperCase(s) ==
  CASE s = "de" -> "DE"
    [] s = "us" -> "US"
    [] s = "zz" -> "ZZ"
    [] OTHER -> s

\* ethers.isAddress accepting every address of the attester model
isAddressAny(s) == TRUE

\* ethers.isAddress
isAddress(s) == s \in {"0xa1", "0xA1", "0xb2", "0xu1", "0xU1", "0xu3", "0xg1", "0xg2", "0xG2"}

\* /^0x[0-9a-f]{64}$/.test
nullifierOk(s) == s \in {"0xn1", "0xn2"}

\* ZKCONF.schemas
ZKCONF_schemas == [binanceDob |-> "schemaDob", kucoinCountry |-> "schemaCountry",
                   kucoinKyc |-> "schemaKyc"]

AgeBucketKeys == {"18-25", "26-30", "31-40", "41-50", "51+"}

\* Date.UTC of a birthday string, in seconds; a string shorter than 10 characters has none.
BirthSec == [d \in {"2001-01-15", "2010-06-01"} |->
               IF d = "2001-01-15" THEN 979516800 ELSE 1275350400]

\* 365.25 * 24 * 3600 seconds
YearLen == 36525 * 24 * 36

\* Date.now() of the service, in seconds: the instants at which requests are served.
ClockTicks == <<1793750400, 1800403200>>

\* dobToAgeBucketKey; "" is null
dobToAgeBucketKey(dobISO, t) ==
  IF dobISO \notin DOMAIN BirthSec THEN ""
  ELSE LET age == (t - BirthSec[dobISO]) \div YearLen
       IN  IF age < 18 THEN ""
           ELSE IF age <= 25 THEN "18-25"
           ELSE IF age <= 30 THEN "26-30"
           ELSE IF age <= 40 THEN "31-40"
           ELSE IF age <= 50 THEN "41-50"
           ELSE "51+"

\* COUNTRY_REGION[cc]
COUNTRY_REGION(code) ==
  LET cc == toUpperCase(code)
  IN  IF cc \in {"DE", "FR"} THEN "Europe"
      ELSE IF cc \in {"US", "CA"} THEN "Americas"
      ELSE "Other"

\* ------------------------------------------------------------ attester service: stores
\* "" is an undefined string field, FALSE an undefined flag.
NewPerson(n) == [nullifier |-> n, ageBucket |-> "", region |-> "", country |-> "", kycOk |-> FALSE]

NoAges == [k \in AgeBucketKeys |-> 0]

emptyAnalytics(t) == [updatedAt |-> t, total |-> 0, eligible |-> 0, kycOk |-> 0, rows |-> <<>>]

\* A store directory is a function from the surveys whose file exists to the document.
NoFiles == [x \in {} |-> <<>>]

\* writeJSON
writeJSON(dir, s, obj) == [x \in DOMAIN dir \cup {s} |-> IF x = s THEN obj ELSE dir[x]]

\* readJSON(anaPath(s), emptyAnalytics())
readAnalytics(af, s, t) == IF s \in DOMAIN af THEN af[s] ELSE emptyAnalytics(t)

\* loadPeople: readJSON(pplPath(s), [])
loadPeople(pf, s) == IF s \in DOMAIN pf THEN pf[s] ELSE <<>>

savePeople(pf, s, arr) == writeJSON(pf, s, arr)

OrUnknown(region) == IF region = "" THEN "Unknown" ELSE region

RowKey(r) == <<OrUnknown(r.region), r.country>>

RECURSIVE SumOver(_, _)
SumOver(rows, fld) ==
  IF rows = <<>> THEN 0 ELSE Head(rows)[fld] + SumOver(Tail(rows), fld)

\* applyAggDeltas: returns the analytics document it writes
applyAggDeltas(A, region, country, countDelta, kycDelta, ageDelta, t) ==
  LET key == <<OrUnknown(region), country>>
      hit == {i \in 1..Len(A.rows) : RowKey(A.rows[i]) = key}
      rows0 == IF hit = {}
               THEN Append(A.rows, [region |-> OrUnknown(region), country |-> country,
                                    count |-> 0, kycOk |-> 0, ageBuckets |-> NoAges])
               ELSE A.rows
      at == IF hit = {} THEN Len(rows0) ELSE CHOOSE i \in hit : \A j \in hit : i <= j
      row == rows0[at]
      row1 == [row EXCEPT !.count = @ + countDelta,
                          !.kycOk = @ + kycDelta,
                          !.ageBuckets = [k \in AgeBucketKeys |-> @[k] + ageDelta[k]]]
      rows1 == [rows0 EXCEPT ![at] = row1]
  IN  [updatedAt |-> t,
       total |-> SumOver(rows1, "count"),
       eligible |-> SumOver(rows1, "count"),
       kycOk |-> SumOver(rows1, "kycOk"),
       rows |-> rows1]

\* ------------------------------------------------------------ attester service: submit
NoApplied == [countDelta |-> 0, kycDelta |-> 0, ageDelta |-> NoAges, region |-> "", country |-> ""]
NoResp == [status |-> 0, error |-> "", deduped |-> FALSE, applied |-> NoApplied]

\* res.status(400).json({ error })
Reject(pf, af, why) ==
  [people |-> pf, ana |-> af, payload |-> <<>>, key |-> "",
   resp |-> [status |-> 400, error |-> why, deduped |-> FALSE, applied |-> NoApplied]]

\* the handler working on the stores as the handler before it found them
storesReadEarly(onDisk, before) == before

\* The handler is one synchronous function: loadPeople and readJSON return the files as
\* they are on disk when it runs, after every write of the handlers run before it.
storesRead(onDisk, before) == onDisk

\* the first-time test with every submission taken as a first one
firstTimeAlways(people, nullifier) == TRUE

firstTime(people, nullifier) == \A i \in 1..Len(people) : people[i].nullifier # nullifier

\* POST /api/zkpass/submit, from the parsed body to the response
SubmitHandler(pf, af, req, t) ==
  LET survey == toLowerCase(req.survey)
      nullifier == toLowerCase(req.nullifier)
  IN
  IF ~isAddress(survey) THEN Reject(pf, af, "bad survey")
  ELSE IF ~nullifierOk(nullifier) THEN Reject(pf, af, "bad nullifier")
  ELSE
    LET derivedAge == IF req.schemaId = ZKCONF_schemas.binanceDob
                      THEN dobToAgeBucketKey(req.birthday, t) ELSE ""
        cc == IF req.schemaId = ZKCONF_schemas.kucoinCountry
              THEN toUpperCase(req.countryCode) ELSE ""
        derivedCountry == cc
        derivedRegion == IF cc # "" THEN COUNTRY_REGION(cc) ELSE ""
        derivedKyc == req.schemaId = ZKCONF_schemas.kucoinKyc
        people == loadPeople(pf, survey)
        found == {i \in 1..Len(people) : people[i].nullifier = nullifier}
        first == firstTime(people, nullifier)
        at == IF found = {} THEN 0 ELSE CHOOSE i \in found : \A j \in found : i <= j
        person0 == IF at = 0 THEN NewPerson(nullifier) ELSE people[at]
        countDelta == IF first THEN 1 ELSE 0
        ageHit == derivedAge # "" /\ person0.ageBucket # derivedAge
        kycHit == derivedKyc /\ ~person0.kycOk
        person == [person0 EXCEPT
                     !.ageBucket = IF ageHit THEN derivedAge ELSE @,
                     !.region = IF derivedRegion # "" /\ @ # derivedRegion THEN derivedRegion ELSE @,
                     !.country = IF derivedCountry # "" /\ @ # derivedCountry THEN derivedCountry ELSE @,
                     !.kycOk = IF kycHit THEN TRUE ELSE @]
        kycDelta == IF kycHit THEN 1 ELSE 0
        ageDelta == [k \in AgeBucketKeys |-> IF ageHit /\ k = derivedAge THEN 1 ELSE 0]
        nothingChanged ==
          /\ countDelta = 0
          /\ kycDelta = 0
          /\ ~ageHit
          /\ (derivedRegion = "" \/
              derivedRegion = (IF person.region # "" THEN person.region ELSE derivedRegion))
          /\ (derivedCountry = "" \/
              derivedCountry = (IF person.country # "" THEN person.country ELSE derivedCountry))
        people1 == IF first \/ at = 0 THEN Append(people, person)
                   ELSE [people EXCEPT ![at] = person]
        pf1 == savePeople(pf, survey, people1)
        regionForRow == OrUnknown(person.region)
        countryForRow == person.country
        applied == [countDelta |-> countDelta, kycDelta |-> kycDelta, ageDelta |-> ageDelta,
                    region |-> regionForRow, country |-> countryForRow]
    IN
    IF nothingChanged
    THEN [people |-> pf1, ana |-> af, payload |-> <<>>, key |-> survey,
          resp |-> [status |-> 200, error |-> "", deduped |-> TRUE,
                    applied |-> [NoApplied EXCEPT !.region = regionForRow,
                                                  !.country = countryForRow]]]
    ELSE
      LET updated == applyAggDeltas(readAnalytics(af, survey, t), regionForRow, countryForRow,
                                    countDelta, kycDelta, ageDelta, t)
      IN  [people |-> pf1, ana |-> writeJSON(af, survey, updated),
           payload |-> << [type |-> "append",
                           row |-> [region |-> regionForRow, country |-> countryForRow,
                                    count |-> countDelta, kycOk |-> kycDelta,
                                    ageBuckets |-> ageDelta]] >>,
           key |-> survey,
           resp |-> [status |-> 200, error |-> "", deduped |-> FALSE, applied |-> applied]]

\* sseBroadcast to the subscribers of every survey
sseBroadcastAll(subs, streams0, survey, payload) ==
  [c \in DOMAIN streams0 |-> IF subs[c] # "" THEN Append(streams0[c], payload) ELSE streams0[c]]

\* sseBroadcast: one res.write per connection in the survey's set
sseBroadcast(subs, streams0, survey, payload) ==
  [c \in DOMAIN streams0 |->
     IF subs[c] = toLowerCase(survey) THEN Append(streams0[c], payload) ELSE streams0[c]]

\* for (const res of set): the connections of the survey's set, in insertion order
SubscribersOf(order, subs, survey) ==
  SelectSeq(order, LAMBDA c : subs[c] = toLowerCase(survey))

\* The loop without its try/catch: the first write that throws ends the broadcast.
RECURSIVE writeUntilThrow(_, _, _, _)
writeUntilThrow(set, streams0, data, failing) ==
  IF set = <<>> THEN streams0
  ELSE IF Head(set) \in failing THEN streams0
  ELSE writeUntilThrow(Tail(set), [streams0 EXCEPT ![Head(set)] = Append(@, data)],
                       data, failing)

\* try { res.write(data) } catch {} for each res of the set; a write that throws
\* (res in failing) delivers nothing
RECURSIVE writeEach(_, _, _, _)
writeEach(set, streams0, data, failing) ==
  IF set = <<>> THEN streams0
  ELSE writeEach(Tail(set),
                 IF Head(set) \in failing THEN streams0
                 ELSE [streams0 EXCEPT ![Head(set)] = Append(@, data)],
                 data, failing)

\* sseBroadcast where writes can throw
sseBroadcastWrites(order, subs, streams0, survey, payload, failing) ==
  writeEach(SubscribersOf(order, subs, survey), streams0, payload, failing)

\* ------------------------------------------------------------ Survey contract
\* (contracts/survey/Survey.sol with the eligibility gate; a survey built with the zero
\* gate address behaves as the ungated contract)
ZeroAddr == "0x0"
Accounts == {"c1", "v1"}
SINGLE == 0
MULTIPLE == 1

\* block.timestamp of the blocks in which transactions are mined
BlockTimes == <<9, 10, 20, 21>>

\* constructor: require(_startTime < _endTime), then the fields are set
Survey(a) ==
  [creator |-> a.creator, gate |-> a.gate, surveyType |-> a.surveyType,
   startTime |-> a.startTime, endTime |-> a.endTime, finalized |-> FALSE,
   metaHash |-> a.metaHash, rulesHash |-> "", resultsHash |-> "",
   claimOpenAt |-> 0, claimDeadline |-> 0,
   questions |-> <<>>, participants |-> <<>>,
   hasParticipated |-> [x \in Accounts |-> FALSE]]

\* The result of a transaction: it succeeded with the new storage, or it reverted and
\* the storage is as before.
Done(st) == [ok |-> TRUE, why |-> "", st |-> st]
Revert(st, why) == [ok |-> FALSE, why |-> why, st |-> st]

\* modifier onlyCreator
onlyCreator(st, sender) == sender = st.creator

\* modifier beforeStart
beforeStart(st, t) == t < st.startTime

\* addQuestion; nOptions is _options.length
addQuestion(st, sender, text, nOptions, selectionType, t) ==
  IF ~onlyCreator(st, sender) THEN Revert(st, "Only creator")
  ELSE IF ~beforeStart(st, t) THEN Revert(st, "Already started")
  ELSE IF text = "" THEN Revert(st, "Empty question")
  ELSE IF ~(nOptions > 0 /\ nOptions <= 32) THEN Revert(st, "Invalid options count")
  ELSE IF ~(Len(st.questions) < 50) THEN Revert(st, "Too many questions")
  ELSE Done([st EXCEPT !.questions =
               Append(@, [text |-> text, options |-> nOptions, selectionType |-> selectionType,
                          responses |-> [x \in Accounts |-> <<>>],
                          votesPerOption |-> [k \in 0..(nOptions - 1) |-> 0]])])

\* How often option k is among the selections: one votesPerOption[k]++ each
Occurrences(selections, k) == Cardinality({j \in 1..Len(selections) : selections[j] = k})

\* the test of the participation flag switched off
alreadyParticipatedNever(st, sender) == FALSE

\* hasParticipated[msg.sender]
alreadyParticipated(st, sender) == st.hasParticipated[sender]

\* The selections of question q pass the requires of the loop body.
selectionsOk(q, selections) ==
  /\ IF q.selectionType = SINGLE THEN Len(selections) = 1 ELSE Len(selections) > 0
  /\ \A j \in 1..Len(selections) : selections[j] < q.options

\* _voteCommon
voteCommon(st, sender, sel, t) ==
  IF ~(t >= st.startTime) THEN Revert(st, "Survey not started")
  ELSE IF ~(t <= st.endTime) THEN Revert(st, "Survey ended")
  ELSE IF alreadyParticipated(st, sender) THEN Revert(st, "Already participated")
  ELSE IF ~(Len(st.questions) > 0) THEN Revert(st, "No questions")
  ELSE IF Len(sel) # Len(st.questions) THEN Revert(st, "Invalid number of responses")
  ELSE IF \E i \in 1..Len(st.questions) : ~selectionsOk(st.questions[i], sel[i])
  THEN Revert(st, "Invalid selection")
  ELSE Done([st EXCEPT
               !.hasParticipated[sender] = TRUE,
               !.participants = Append(@, sender),
               !.questions = [i \in 1..Len(st.questions) |->
                  [st.questions[i] EXCEPT
                     !.votesPerOption = [k \in DOMAIN @ |-> @[k] + Occurrences(sel[i], k)],
                     !.responses[sender] = sel[i]]]])

\* vote: the open vote of a survey without gate
vote(st, sender, sel, t) ==
  IF st.gate # ZeroAddr THEN Revert(st, "GATED_SURVEY")
  ELSE voteCommon(st, sender, sel, t)

\* voteWithGate; eligible is ZkPassEligibilityGate(gate).checkEligibility(msg.sender, this)
voteWithGate(st, sender, sel, t, eligible) ==
  IF st.gate = ZeroAddr THEN Revert(st, "NO_GATE")
  ELSE IF ~eligible THEN Revert(st, "Not eligible")
  ELSE voteCommon(st, sender, sel, t)

\* _finalizeCommon without the "Already finalized" requirement
finalizeCommonRepeatable(st, sender, rulesHash, resultsHash, claimOpenAt, claimDeadline, t) ==
  IF ~onlyCreator(st, sender) THEN Revert(st, "Only creator")
  ELSE IF ~(t >= st.endTime) THEN Revert(st, "Survey still active")
  ELSE IF ~(Len(st.questions) > 0) THEN Revert(st, "No questions")
  ELSE Done([st EXCEPT !.finalized = TRUE, !.rulesHash = rulesHash,
                       !.resultsHash = resultsHash, !.claimOpenAt = claimOpenAt,
                       !.claimDeadline = claimDeadline])

\* _finalizeCommon
finalizeCommon(st, sender, rulesHash, resultsHash, claimOpenAt, claimDeadline, t) ==
  IF ~onlyCreator(st, sender) THEN Revert(st, "Only creator")
  ELSE IF ~(t >= st.endTime) THEN Revert(st, "Survey still active")
  ELSE IF st.finalized THEN Revert(st, "Already finalized")
  ELSE IF ~(Len(st.questions) > 0) THEN Revert(st, "No questions")
  ELSE Done([st EXCEPT !.finalized = TRUE, !.rulesHash = rulesHash,
                       !.resultsHash = resultsHash, !.claimOpenAt = claimOpenAt,
                       !.claimDeadline = claimDeadline])

getParticipantsCount(st) == Len(st.participants)

getQuestionsCount(st) == Len(st.questions)

\* getVotes(questionIndex), questions counted from 1
getVotes(st, i) == st.questions[i].votesPerOption


\* ------------------------------------------------------------ initial state
EmptySurveys == [order |-> <<>>, rec |-> [x \in {} |-> NewRec]]
FileNames == {"BAL", "SURV", "LIST", "GATES", "STATE"}
NoSnap == [bal |-> [v \in Voters |-> 0], prize |-> [x \in {} |-> <<0, 0>>], to |-> 0]
NoScan == [queries |-> <<>>, returned |-> <<>>, handed |-> {}, lost |-> FALSE,
           marks |-> <<0, 0, 0>>]
StatusDefault == [start |-> Null, end |-> Null, finalized |-> Null, now |-> 0]

\* The output directory as ensureOutputs() creates it, before the first invocation.
InitIndexer ==
  /\ stateFile = [lastBlock |-> 0, updatedAt |-> 0]
  /\ ledgerFile = <<>>
  /\ balFile = [v \in Voters |-> 0]
  /\ survFile = EmptySurveys
  /\ listFile = <<>>
  /\ gatesFile = [updatedAt |-> 0]
  /\ fundingDir = [a \in SurveyAddrs |-> "none"]
  /\ pc = "idle"
  /\ latest = 0 /\ fromBlock = 0 /\ toBlock = 0 /\ f = 0
  /\ balances = [v \in Voters |-> 0]
  /\ surveys = EmptySurveys
  /\ knownSurveyAddrs = <<>>
  /\ now = 0
  /\ runs = 0 /\ disturb = 0
  /\ stateRead = 0
  /\ folded = {}
  /\ inRange = {}
  /\ discFailAt = 0
  /\ lostQuery = FALSE
  /\ pubGen = [n \in FileNames |-> 0]
  /\ replay = "none"
  /\ snap = NoSnap
  /\ scan = NoScan

\* The attester service at start-up: empty output directories, no subscriber.
SurveyKeys == {"0xa1", "0xb2"}
NullKeys == {"0xn1", "0xn2"}
Conns == {"r1", "r2"}
NoSubmit == [survey |-> "", schemaId |-> "", birthday |-> "", countryCode |-> "", nullifier |-> ""]
NoSign == [req |-> <<>>, at |-> 0, resp |-> [status |-> 0, error |-> "", signature |-> <<>>, domain |-> <<>>]]

NoCast == [n |-> 0, survey |-> "", payload |-> 0, failing |-> {}]

InitAttester ==
  /\ sseOrder = <<>>
  /\ cast = NoCast
  /\ peopleFile = NoFiles
  /\ anaFile = NoFiles
  /\ sseSubs = [c \in Conns |-> ""]
  /\ conn = [c \in Conns |-> "new"]
  /\ streams = [c \in Conns |-> <<>>]
  /\ clock = 1
  /\ inflight = <<>>
  /\ stale = [people |-> NoFiles, ana |-> NoFiles]
  /\ last = [req |-> NoSubmit, resp |-> NoResp]
  /\ nArrived = 0
  /\ overlapped = FALSE
  /\ serialPeople = NoFiles
  /\ serialAna = NoFiles
  /\ lastBy = [k \in SurveyKeys \X NullKeys |-> <<>>]
  /\ rawSeen = {}
  /\ signLast = NoSign
  /\ signPrev = NoSign

CHAIN_ID == 534351
GATE_ADDR == "0xg1"
ATTESTER_PRIVKEY == "key1"

\* Both processes started with every required value configured
Booted ==
  [proc |-> "both", cfg |-> [factory |-> TRUE, key |-> ATTESTER_PRIVKEY, gate |-> GATE_ADDR],
   stage |-> "up", outputs |-> TRUE, dirs |-> TRUE, served |-> 0]

NoPush == [pc |-> "none"]

InitBooted == boot = Booted /\ push = NoPush

NoNorm == [field |-> "", src |-> Big(0, 0, 0), stored |-> <<>>, listed |-> <<>>, runs |-> 0]

NoHash == [of |-> <<>>, upper |-> FALSE, empty |-> TRUE]
NoFile == [kind |-> "absent", doc |-> <<>>]
NoMeta == [file |-> NoFile, metaHash |-> NoHash, rec |-> <<>>, before |-> <<>>, runs |-> 0]

NoCrash == [n |-> 0, at |-> "none"]

NoLife == [rec |-> NewRec, now |-> 0, status |-> "none", fin |-> FALSE, lists |-> 0]

NoFund == [surveys |-> [order |-> <<>>, rec |-> [x \in {} |-> NewRec]],
           dir |-> [a \in {} |-> "none"], ledger |-> <<>>, passes |-> 0, subs |-> 0]

NoGate == [gate |-> [impl |-> "", addr |-> "", chainid |-> 0, attester |-> ""],
           time |-> 1, issued |-> <<>>, call |-> <<>>]

InitLateIdle ==
  /\ norm = NoNorm /\ metaSt = NoMeta /\ crash = NoCrash /\ life = NoLife /\ fund = NoFund
  /\ gateSt = NoGate

InitTsIdle == tsIn = Wide(0, 0) /\ tsOut = <<>> /\ InitLateIdle

InitStatusIdle == stIn = StatusDefault /\ stOut = "none"

\* The constructor arguments of the deployments considered: an open multiple-choice
\* survey and a gated binary vote; the constructor requires _startTime < _endTime.
CtorArgs ==
  {a \in [creator : {"c1"}, gate : {ZeroAddr, "gate"}, surveyType : {0, 1},
          startTime : {10, 20}, endTime : {10, 20}, metaHash : {"m1"}] :
     /\ a.startTime < a.endTime
     /\ (a.surveyType = 1) = (a.gate # ZeroAddr)}

NoTx == [fn |-> "", sender |-> "", ok |-> FALSE]

\* The contract right after its deployment by constructor arguments a.
Deployed(a) ==
  /\ ctorArgs = a
  /\ storage = Survey(a)
  /\ isEligible = {}
  /\ blockTime = 1
  /\ lastTx = NoTx
  /\ voted = {}

\* The configuration of the indexer process and a provider that applies address filters.
InitEnv == env = [START |-> START, ONLY_LAST |-> ONLY_LAST, providerFilters |-> TRUE]

InitSurveyIdle ==
  Deployed([creator |-> "c1", gate |-> ZeroAddr, surveyType |-> 0,
            startTime |-> 10, endTime |-> 20, metaHash |-> "m1"])

Init == InitIndexer /\ InitBooted /\ InitTsIdle /\ InitEnv /\ InitStatusIdle /\ InitAttester /\ InitSurveyIdle

\* ------------------------------------------------------------ main(): start
\* fromBlock = max(lastBlock + 1, START, tail floor)
ScanFrom(lastBlock, head) ==
  LET fromByState == lastBlock + 1
      fromByStart == Max(env.START, 0)
      fromByTail == IF env.ONLY_LAST # 0 THEN Max(head - env.ONLY_LAST + 1, 0) ELSE 0
  IN  Max(Max(fromByState, fromByStart), fromByTail)

\* the end of a batch taken one block too far
BatchEndOverlap(from, to) == Min(from + BATCH, to)

\* const t = Math.min(f + BATCH - 1, toBlock)
BatchEnd(from, to) == Min(from + BATCH - 1, to)

\* the loop going back to the first batch after its second
NextBatchStartAgain(from, first) == IF from = first + BATCH THEN first ELSE from + BATCH

\* f += BATCH
NextBatchStart(from, first) == from + BATCH

\* Pass 2 asking only for the addresses surveys.json held at the start
Pass2AddrsPriorOnly(known, prior) == prior

\* const addrs = Array.from(knownSurveyAddrs): the addresses of surveys.json and those
\* Pass 1 added
Pass2Addrs(known, prior) == known

PrizeOf(sv) == [a \in DOMAIN sv.rec |-> <<sv.rec[a].prizeFunded, sv.rec[a].prizeSwept>>]

Start ==
  /\ pc = "idle" /\ runs < MaxRuns
  /\ \E head \in LatestChoices :
       /\ latest' = head
       /\ fromBlock' = ScanFrom(stateFile.lastBlock, head)
       /\ toBlock' = head
       /\ f' = ScanFrom(stateFile.lastBlock, head)
       /\ inRange' = inRange \cup
             {i \in 1..Len(ChainLogs) :
                /\ ChainLogs[i].blockNumber >= ScanFrom(stateFile.lastBlock, head)
                /\ ChainLogs[i].blockNumber <= head}
       /\ replay' = IF replay = "armed" /\ head = snap.to THEN "running" ELSE "none"
  /\ scan' = [NoScan EXCEPT !.marks = <<Len(ledgerFile), Len(ledgerFile), Len(ledgerFile)>>]
  /\ stateRead' = stateFile.lastBlock
  /\ balances' = balFile
  /\ surveys' = survFile
  /\ knownSurveyAddrs' = survFile.order
  /\ pc' = "pass1"
  /\ runs' = runs + 1
  /\ discFailAt' = 0
  /\ UNCHANGED <<fileVars, now, disturb, folded, lostQuery, pubGen, snap, stVars, attVars, extVars>>

\* ------------------------------------------------------------ Pass 1
Pass1Batch ==
  /\ pc = "pass1" /\ f <= toBlock /\ Len(FACTORIES) > 0
  /\ \E arrayOk \in BOOLEAN, okSet \in SUBSET Range(FACTORIES) :
       LET t == BatchEnd(f, toBlock)
           logs == IF arrayOk THEN getLogs(f, t, Range(FACTORIES))
                   ELSE perAddressLogs(FACTORIES, okSet, f, t)
           lost == ~arrayOk /\ okSet # Range(FACTORIES)
           st == Pass1Fold([surveys |-> surveys, known |-> knownSurveyAddrs,
                            ledger |-> ledgerFile], logs)
       IN  /\ arrayOk => okSet = Range(FACTORIES)
           /\ lost => disturb < MaxDisturb
           /\ disturb' = IF lost THEN disturb + 1 ELSE disturb
           /\ surveys' = st.surveys
           /\ knownSurveyAddrs' = st.known
           /\ ledgerFile' = st.ledger
           /\ folded' = folded \cup Range(logs)
           /\ discFailAt' = IF lost /\ discFailAt = 0 THEN f ELSE discFailAt
           /\ lostQuery' = (lostQuery \/ lost)
           /\ scan' = [scan EXCEPT !.queries = Append(@, [pass |-> 1, lo |-> f, hi |-> t,
                                                           addrs |-> Range(FACTORIES)]),
                                    !.returned = logs,
                                    !.lost = (@ \/ lost),
                                    !.marks = <<@[1], Len(st.ledger), Len(st.ledger)>>]
  /\ f' = NextBatchStart(f, fromBlock)
  /\ UNCHANGED <<stateFile, balFile, survFile, listFile, gatesFile, fundingDir,
                 pc, latest, fromBlock, toBlock, balances, now,
                 runs, stateRead, inRange, pubGen, replay, snap, stVars, attVars, extVars>>

\* ------------------------------------------------------------ enrichment with metadata
Enrich ==
  /\ pc = "pass1" /\ ~(f <= toBlock /\ Len(FACTORIES) > 0)
  /\ surveys' = EnrichAll(surveys, knownSurveyAddrs)
  /\ pc' = "pass2"
  /\ f' = fromBlock
  /\ UNCHANGED <<fileVars, latest, fromBlock, toBlock, balances, knownSurveyAddrs, now,
                 ghostVars, stVars, attVars, extVars>>

\* ------------------------------------------------------------ Pass 2
\* knownSurveyAddrs holds at most CHUNK addresses here, so the chunk loop has one chunk.
Pass2Batch ==
  /\ pc = "pass2" /\ Len(knownSurveyAddrs) > 0 /\ f <= toBlock
  /\ \E arrayOk \in BOOLEAN,
        okSet \in SUBSET Range(Pass2Addrs(knownSurveyAddrs, survFile.order)) :
       LET t == BatchEnd(f, toBlock)
           addrs == Pass2Addrs(knownSurveyAddrs, survFile.order)
           chunk == SubSeq(addrs, 1, Min(CHUNK, Len(addrs)))
           logs == IF arrayOk THEN getLogs(f, t, Range(chunk))
                   ELSE perAddressLogs(chunk, okSet, f, t)
           lost == ~arrayOk /\ okSet # Range(chunk)
           st == Pass2Fold([surveys |-> surveys, balances |-> balances,
                            ledger |-> ledgerFile], knownSurveyAddrs, logs)
       IN  /\ arrayOk => okSet = Range(chunk)
           /\ lost => disturb < MaxDisturb
           /\ disturb' = IF lost THEN disturb + 1 ELSE disturb
           /\ surveys' = st.surveys
           /\ balances' = st.balances
           /\ ledgerFile' = st.ledger
           /\ folded' = folded \cup Range(logs)
           /\ lostQuery' = (lostQuery \/ lost)
           /\ scan' = [scan EXCEPT !.queries = Append(@, [pass |-> 2, lo |-> f, hi |-> t,
                                                           addrs |-> Range(chunk)]),
                                    !.returned = logs,
                                    !.handed = @ \cup Range(logs),
                                    !.lost = (@ \/ lost),
                                    !.marks = <<@[1], @[2], Len(st.ledger)>>]
  /\ f' = NextBatchStart(f, fromBlock)
  /\ UNCHANGED <<stateFile, balFile, survFile, listFile, gatesFile, fundingDir,
                 pc, latest, fromBlock, toBlock, knownSurveyAddrs, now,
                 runs, stateRead, inRange, discFailAt, pubGen, replay,
                 snap, stVars, attVars, extVars>>

\* ------------------------------------------------------------ backfill and funding
Backfill ==
  /\ pc = "pass2" /\ ~(Len(knownSurveyAddrs) > 0 /\ f <= toBlock)
  /\ surveys' = [surveys EXCEPT !.rec = [a \in DOMAIN surveys.rec |-> BackfillRec(surveys.rec[a])]]
  /\ pc' = "funding"
  /\ UNCHANGED <<fileVars, latest, fromBlock, toBlock, f, balances, knownSurveyAddrs, now,
                 ghostVars, stVars, attVars, extVars>>

FundingVerify ==
  /\ pc = "funding"
  /\ LET st == IF TREASURY_SAFE # ""
               THEN FundingLoop([surveys |-> surveys, ledger |-> ledgerFile],
                                fundingDir, SubmissionOrder, latest)
               ELSE [surveys |-> surveys, ledger |-> ledgerFile]
     IN  /\ surveys' = st.surveys
         /\ ledgerFile' = st.ledger
  /\ pc' = "saveBal"
  /\ UNCHANGED <<stateFile, balFile, survFile, listFile, gatesFile, fundingDir,
                 latest, fromBlock, toBlock, f, balances, knownSurveyAddrs, now,
                 ghostVars, stVars, attVars, extVars>>

\* ------------------------------------------------------------ save artifacts
\* fs.writeFileSync(FILES.BAL, ...)
SaveBal ==
  /\ pc = "saveBal"
  /\ balFile' = balances
  /\ pubGen' = [pubGen EXCEPT !["BAL"] = runs]
  /\ pc' = "saveSurv"
  /\ UNCHANGED <<stateFile, ledgerFile, survFile, listFile, gatesFile, fundingDir,
                 latest, fromBlock, toBlock, f, balances, surveys, knownSurveyAddrs, now,
                 runs, disturb, stateRead, folded, inRange, discFailAt,
                 lostQuery, replay, snap, scan, stVars, attVars, extVars>>

\* fs.writeFileSync(FILES.SURV, ...)
SaveSurv ==
  /\ pc = "saveSurv"
  /\ survFile' = surveys
  /\ pubGen' = [pubGen EXCEPT !["SURV"] = runs]
  /\ pc' = "saveList"
  /\ UNCHANGED <<stateFile, ledgerFile, balFile, listFile, gatesFile, fundingDir,
                 latest, fromBlock, toBlock, f, balances, surveys, knownSurveyAddrs, now,
                 runs, disturb, stateRead, folded, inRange, discFailAt,
                 lostQuery, replay, snap, scan, stVars, attVars, extVars>>

\* const now = nowSec(); fs.writeFileSync(FILES.LIST, ...)
SaveList ==
  /\ pc = "saveList"
  /\ now' = nowSec(runs)
  /\ listFile' = CardList(surveys, nowSec(runs))
  /\ pubGen' = [pubGen EXCEPT !["LIST"] = runs]
  /\ pc' = "saveGates"
  /\ UNCHANGED <<stateFile, ledgerFile, balFile, survFile, gatesFile, fundingDir,
                 latest, fromBlock, toBlock, f, balances, surveys, knownSurveyAddrs,
                 runs, disturb, stateRead, folded, inRange, discFailAt,
                 lostQuery, replay, snap, scan, stVars, attVars, extVars>>

\* fs.writeFileSync(FILES.GATES, ...)
SaveGates ==
  /\ pc = "saveGates"
  /\ gatesFile' = [updatedAt |-> now]
  /\ pubGen' = [pubGen EXCEPT !["GATES"] = runs]
  /\ pc' = "saveState"
  /\ UNCHANGED <<stateFile, ledgerFile, balFile, survFile, listFile, fundingDir,
                 latest, fromBlock, toBlock, f, balances, surveys, knownSurveyAddrs, now,
                 runs, disturb, stateRead, folded, inRange, discFailAt,
                 lostQuery, replay, snap, scan, stVars, attVars, extVars>>

\* The cursor main() persists
NextCursor(readCursor, from, to) == to

\* fs.writeFileSync(FILES.STATE, { ..., lastBlock: toBlock, updatedAt: now })
SaveState ==
  /\ pc = "saveState"
  /\ stateFile' = [lastBlock |-> NextCursor(stateRead, fromBlock, toBlock), updatedAt |-> now]
  /\ pubGen' = [pubGen EXCEPT !["STATE"] = runs]
  /\ replay' = IF replay = "running" THEN "done" ELSE replay
  /\ pc' = "idle"
  /\ UNCHANGED <<ledgerFile, balFile, survFile, listFile, gatesFile, fundingDir,
                 latest, fromBlock, toBlock, f, balances, surveys, knownSurveyAddrs, now,
                 runs, disturb, stateRead, folded, inRange, discFailAt,
                 lostQuery, snap, scan, stVars, attVars, extVars>>

\* ------------------------------------------------------------ environment
\* scripts/submit-funding.ts writes funding/<chain>/<survey>.json
SubmitFunding ==
  /\ pc = "idle" /\ disturb < MaxDisturb
  /\ \E a \in SurveyAddrs, tx \in TxIds : fundingDir' = [fundingDir EXCEPT ![a] = tx]
  /\ disturb' = disturb + 1
  /\ UNCHANGED <<stateFile, ledgerFile, balFile, survFile, listFile, gatesFile,
                 memVars, runs, stateRead, folded, inRange, discFailAt,
                 lostQuery, pubGen, replay, snap, scan, stVars, attVars, extVars>>

\* An operator puts the cursor back to just below the range the last invocation scanned.
ManualReset ==
  /\ pc = "idle" /\ disturb < MaxDisturb /\ replay = "none"
  /\ runs > 0 /\ fromBlock <= toBlock /\ stateFile.lastBlock = toBlock
  /\ stateFile' = [stateFile EXCEPT !.lastBlock = fromBlock - 1]
  /\ snap' = [bal |-> balFile, prize |-> PrizeOf(survFile), to |-> toBlock]
  /\ replay' = "armed"
  /\ disturb' = disturb + 1
  /\ UNCHANGED <<ledgerFile, balFile, survFile, listFile, gatesFile, fundingDir,
                 memVars, runs, stateRead, folded, inRange, discFailAt,
                 lostQuery, pubGen, scan, stVars, attVars, extVars>>

Next ==
  \/ Start
  \/ Pass1Batch
  \/ Enrich
  \/ Pass2Batch
  \/ Backfill
  \/ FundingVerify
  \/ SaveBal
  \/ SaveSurv
  \/ SaveList
  \/ SaveGates
  \/ SaveState
  \/ SubmitFunding
  \/ ManualReset

Spec == Init /\ [][Next]_vars

\* ------------------------------------------------------------ interrupted invocations
\* The process is killed between two steps of main(): what it holds in memory is gone,
\* the files are as it left them, and the next invocation starts from them.
Crash ==
  /\ pc # "idle" /\ crash.n < MaxCrashes
  /\ crash' = [n |-> crash.n + 1, at |-> pc]
  /\ pc' = "idle"
  /\ UNCHANGED <<conVars, env, castVars, procVars, tsIn, tsOut, notCrash, fileVars,
                 latest, fromBlock, toBlock, f, balances, surveys, knownSurveyAddrs, now,
                 ghostVars, stVars, attVars>>

\* Every log query answers, and the chain does not get shorter between invocations.
NextCrash ==
  \/ Start /\ latest' >= stateFile.lastBlock
  \/ Pass1Batch /\ ~lostQuery'
  \/ Enrich
  \/ Pass2Batch /\ ~lostQuery'
  \/ Backfill
  \/ FundingVerify
  \/ SaveBal
  \/ SaveSurv
  \/ SaveList
  \/ SaveGates
  \/ SaveState
  \/ Crash

SpecCrash == Init /\ [][NextCrash]_vars

\* ------------------------------------------------------------ funding verification on its own
\* Both surveys are on record, deployed by the same creator, each with the planned
\* reward its metadata document states (0 when it states none).
PlannedChoices == {0, 5}

FundedSurveys(p1, p2) ==
  PutRec(PutRec(EmptySurveys, "s1", [NewRec EXCEPT !.creator = "c1", !.plannedRewardWei = p1]),
         "s2", [NewRec EXCEPT !.creator = "c1", !.plannedRewardWei = p2])

\* Somebody writes a funding submission for a survey.
FundSubmit ==
  /\ fund.subs < MaxDisturb
  /\ \E a \in SurveyAddrs, tx \in TxIds :
       fund' = [fund EXCEPT !.dir[a] = tx, !.subs = @ + 1]
  /\ UNCHANGED <<earlyVars, notFund>>

\* The funding verification of one invocation, at some chain height
FundPass ==
  /\ fund.passes < MaxRuns /\ TREASURY_SAFE # ""
  /\ \E head \in LatestChoices :
       LET st == FundingLoop([surveys |-> fund.surveys, ledger |-> fund.ledger],
                             fund.dir, SubmissionOrder, head)
       IN  fund' = [fund EXCEPT !.surveys = st.surveys, !.ledger = st.ledger,
                                !.passes = @ + 1]
  /\ UNCHANGED <<earlyVars, notFund>>

InitFund ==
  /\ InitIndexer /\ InitBooted /\ InitEnv /\ InitStatusIdle /\ InitAttester /\ InitSurveyIdle
  /\ tsIn = Wide(0, 0) /\ tsOut = <<>>
  /\ norm = NoNorm /\ metaSt = NoMeta /\ crash = NoCrash /\ life = NoLife /\ gateSt = NoGate
  /\ \E p1 \in PlannedChoices, p2 \in PlannedChoices :
       fund = [NoFund EXCEPT !.surveys = FundedSurveys(p1, p2),
                             !.dir = [a \in SurveyAddrs |-> "none"]]

NextFund ==
  \/ FundSubmit
  \/ FundPass

SpecFund == InitFund /\ [][NextFund]_vars

\* ------------------------------------------------------------ the scanner under other settings
\* START_BLOCK / ONLY_LAST_BLOCKS of the environment, and a provider that returns the
\* logs of every address of the range whatever address filter it is given.
EnvChoices ==
  { [START |-> START, ONLY_LAST |-> ONLY_LAST, providerFilters |-> TRUE],
    [START |-> 800, ONLY_LAST |-> 0, providerFilters |-> TRUE],
    [START |-> 0, ONLY_LAST |-> 500, providerFilters |-> TRUE],
    [START |-> 2000, ONLY_LAST |-> 0, providerFilters |-> TRUE],
    [START |-> START, ONLY_LAST |-> ONLY_LAST, providerFilters |-> FALSE] }

InitScan ==
  /\ InitIndexer /\ InitBooted /\ InitTsIdle /\ InitStatusIdle /\ InitAttester /\ InitSurveyIdle
  /\ env \in EnvChoices

NextScan ==
  \/ Start
  \/ Pass1Batch
  \/ Enrich
  \/ Pass2Batch
  \/ Backfill
  \/ FundingVerify
  \/ SaveBal
  \/ SaveSurv
  \/ SaveList
  \/ SaveGates
  \/ SaveState

SpecScan == InitScan /\ [][NextScan]_vars

\* ------------------------------------------------------------ computeStatus on its own
StatusTimes == {Null, <<0>>, <<100>>, <<200>>, <<210>>, <<300>>, <<400>>}
StatusNows == {0, 50, 100, 150, 200, 250, 300, 400}

InitStatus ==
  /\ InitIndexer /\ InitBooted /\ InitTsIdle
  /\ stIn \in [start : StatusTimes, end : StatusTimes, finalized : StatusTimes, now : StatusNows]
  /\ stOut = "none"
  /\ InitAttester
  /\ InitSurveyIdle
  /\ InitEnv

ApplyStatus ==
  /\ stOut = "none"
  /\ stOut' = computeStatus(stIn.start, stIn.end, stIn.finalized, stIn.now)
  /\ UNCHANGED <<fileVars, memVars, ghostVars, stIn, attVars, extVars>>

NextStatus == ApplyStatus

SpecStatus == InitStatus /\ [][NextStatus]_vars

\* ------------------------------------------------------------ a survey through the lists
\* One survey record with a schedule, the Finalized event folded into it at some point,
\* and the card surveys.list.json shows for it in successive invocations.
ScheduleTimes == {0, 100, 200, 210, 300, 400}

FinalizedLog == CHOOSE i \in 1..Len(ChainLogs) : ChainLogs[i].name = "Finalized"

\* The Pass 2 handler folds the Finalized log into the record.
LifeFinalized ==
  /\ ~life.fin
  /\ LET a == ChainLogs[FinalizedLog].address
         st == Pass2Log([surveys |-> PutRec(EmptySurveys, a, life.rec),
                         balances |-> [v \in Voters |-> 0], ledger |-> <<>>],
                        <<a>>, FinalizedLog)
     IN  life' = [life EXCEPT !.rec = st.surveys.rec[a], !.fin = TRUE]
  /\ UNCHANGED <<earlyVars, notLife>>

\* An invocation at a wall-clock time not before the last one writes the flat list.
LifePublish ==
  /\ life.lists < MaxRuns
  /\ \E t \in StatusNows :
       /\ t >= life.now
       /\ life' = [life EXCEPT !.now = t,
                               !.status = Card(ChainLogs[FinalizedLog].address, life.rec, t).status,
                               !.lists = @ + 1]
  /\ UNCHANGED <<earlyVars, notLife>>

InitLife ==
  /\ InitIndexer /\ InitBooted /\ InitEnv /\ InitStatusIdle /\ InitAttester /\ InitSurveyIdle
  /\ tsIn = Wide(0, 0) /\ tsOut = <<>> /\ norm = NoNorm /\ metaSt = NoMeta /\ crash = NoCrash /\ fund = NoFund
  /\ gateSt = NoGate
  /\ \E s \in ScheduleTimes, e \in ScheduleTimes :
       life = [NoLife EXCEPT !.rec = [NewRec EXCEPT !.start = s, !.end = e]]

NextLife ==
  \/ LifeFinalized
  \/ LifePublish

SpecLife == InitLife /\ [][NextLife]_vars

\* ------------------------------------------------------------ attester service: requests
SubmitReq(sv, sch, dob, cc, n) ==
  [survey |-> sv, schemaId |-> sch, birthday |-> dob, countryCode |-> cc, nullifier |-> n]

\* Bodies a client may post to /api/zkpass/submit.
SubmitRequests ==
  { SubmitReq("0xA1", "schemaDob", "2001-01-15", "", "0xN1"),
    SubmitReq("0xA1", "schemaDob", "2010-06-01", "", "0xN1"),
    SubmitReq("0xA1", "schemaCountry", "", "de", "0xN1"),
    SubmitReq("0xA1", "schemaCountry", "", "US", "0xN1"),
    SubmitReq("0xA1", "schemaKyc", "", "", "0xN1"),
    SubmitReq("0xA1", "schemaKyc", "", "", "0xn2"),
    SubmitReq("0xA1", "schemaCountry", "", "DE", "0xn2"),
    SubmitReq("0xb2", "schemaKyc", "", "", "0xN1"),
    SubmitReq("bad", "schemaKyc", "", "", "0xN1"),
    SubmitReq("0xA1", "schemaKyc", "", "", "bad") }

\* A request reaches the server and waits for its handler to be run.
SubmitArrive ==
  /\ nArrived < MaxSubmits /\ Len(inflight) < MaxInflight
  /\ \E r \in SubmitRequests :
       inflight' = Append(inflight, r)
  /\ nArrived' = nArrived + 1
  /\ overlapped' = (overlapped \/ inflight # <<>>)
  /\ UNCHANGED <<extVars, fileVars, memVars, ghostVars, stVars, storeVars, sseVars, clock,
                 stale, last, serialPeople, serialAna, lastBy, rawSeen, signVars>>

\* The handler of one waiting request runs from its first line to its response.
SubmitHandle ==
  /\ \E i \in 1..Len(inflight) :
       LET req == inflight[i]
           t == ClockTicks[clock]
           seen == storesRead([people |-> peopleFile, ana |-> anaFile], stale)
           out == SubmitHandler(seen.people, seen.ana, req, t)
           ser == SubmitHandler(serialPeople, serialAna, req, t)
           who == <<out.key, toLowerCase(req.nullifier)>>
       IN  /\ peopleFile' = out.people
           /\ anaFile' = out.ana
           /\ streams' = IF out.payload = <<>> THEN streams
                         ELSE sseBroadcast(sseSubs, streams, out.key, out.payload[1])
           /\ stale' = seen
           /\ last' = [req |-> req, resp |-> out.resp]
           /\ serialPeople' = ser.people
           /\ serialAna' = ser.ana
           /\ lastBy' = IF out.resp.status = 200 /\ who \in DOMAIN lastBy
                        THEN [lastBy EXCEPT ![who] = <<req>>] ELSE lastBy
           /\ rawSeen' = rawSeen \cup ({req.birthday, req.countryCode} \ {""})
           /\ inflight' = SubSeq(inflight, 1, i - 1) \o SubSeq(inflight, i + 1, Len(inflight))
  /\ UNCHANGED <<extVars, fileVars, memVars, ghostVars, stVars, sseSubs, conn, clock,
                 nArrived, overlapped, signVars>>

\* GET /api/stream/:survey
Subscribe ==
  /\ \E c \in Conns :
       LET path == IF c = "r1" THEN "0xA1" ELSE "0xb2" IN
       /\ conn[c] = "new"
       /\ conn' = [conn EXCEPT ![c] = "open"]
       /\ sseSubs' = [sseSubs EXCEPT ![c] = toLowerCase(path)]
       /\ sseOrder' = Append(sseOrder, c)
  /\ UNCHANGED <<conVars, env, procVars, tsVars, cast, fileVars, memVars, ghostVars, stVars, storeVars,
                 streams, clock, attGhost, signVars>>

\* req.on("close")
Disconnect ==
  /\ \E c \in Conns :
       /\ conn[c] = "open"
       /\ conn' = [conn EXCEPT ![c] = "closed"]
       /\ sseSubs' = [sseSubs EXCEPT ![c] = ""]
       /\ sseOrder' = SelectSeq(sseOrder, LAMBDA x : x # c)
  /\ UNCHANGED <<conVars, env, procVars, tsVars, cast, fileVars, memVars, ghostVars, stVars, storeVars,
                 streams, clock, attGhost, signVars>>

\* Time passes.
Tick ==
  /\ clock < Len(ClockTicks)
  /\ clock' = clock + 1
  /\ UNCHANGED <<extVars, fileVars, memVars, ghostVars, stVars, storeVars, sseVars,
                 attGhost, signVars>>

NextAttester ==
  \/ SubmitArrive
  \/ SubmitHandle
  \/ Subscribe
  \/ Disconnect
  \/ Tick

\* The service starts beside an indexer that has not run.
InitService == InitIndexer /\ InitBooted /\ InitTsIdle /\ InitEnv /\ InitStatusIdle /\ InitAttester /\ InitSurveyIdle

SpecAttester == InitService /\ [][NextAttester]_vars

\* ------------------------------------------------------------ a subscriber beside the snapshot
\* GET /api/analytics/:survey: the stored document of the lower-cased survey
getAnalytics(af, survey, t) == readAnalytics(af, toLowerCase(survey), t)

\* Connection r1 opens its stream before any submission is handled and keeps it open.
NextWatched ==
  \/ SubmitArrive
  \/ SubmitHandle /\ conn["r1"] = "open"
  \/ Subscribe
  \/ Disconnect /\ conn'["r1"] # "closed"
  \/ Tick

SpecWatched == InitService /\ [][NextWatched]_vars

\* ------------------------------------------------------------ push to the admin API
\* pushAllToWorker(list, metaDir, CHAIN_ID) as main() calls it after state.json is
\* written. push = [pc, configured, n, meta, card, attempt, attempts, delivered, again,
\* outcome]: API_BASE and ADMIN_TOKEN are set; the list has n cards; meta[k]: card k has
\* a metadata file; attempts[k]: loop iterations made for card k; delivered[k]: the
\* card's last iteration posted it; again: an iteration was made for a card already
\* delivered.
PushReady(configured, n, meta) ==
  [pc |-> "start", configured |-> configured, n |-> n, meta |-> meta,
   card |-> 0, attempt |-> 0,
   attempts |-> [k \in 1..n |-> 0], delivered |-> [k \in 1..n |-> FALSE],
   again |-> FALSE, outcome |-> ""]

\* the give-up test letting a fourth attempt through
lastAttemptAtFour(attempt) == attempt = 4

\* const last = attempt === 3
lastAttempt(attempt) == attempt = 3

\* if (!API_BASE || !ADMIN_TOKEN) return; otherwise the loop over the cards begins
PushStart ==
  /\ push.pc = "start"
  /\ push' = IF ~push.configured \/ push.n = 0
             THEN [push EXCEPT !.pc = "done"]
             ELSE [push EXCEPT !.pc = "loop", !.card = 1, !.attempt = 1]
  /\ UNCHANGED <<conVars, env, castVars, tsVars, boot, fileVars, memVars, ghostVars, stVars, attVars>>

\* One iteration of the attempt loop for the current card: the metadata post (when the
\* card has metadata) and the card post, either of which may throw; then break, give
\* up, or sleep and retry. After the last card the function returns.
PushAttempt ==
  /\ push.pc = "loop"
  /\ \E metaOk, cardOk \in BOOLEAN :
       LET k == push.card
           ok == metaOk /\ cardOk
           leave == ok \/ lastAttempt(push.attempt)
       IN  /\ ~push.meta[k] => metaOk
           /\ ~metaOk => ~cardOk
           /\ push' = [push EXCEPT
                 !.attempts[k] = @ + 1,
                 !.delivered[k] = ok,
                 !.again = (@ \/ push.delivered[k]),
                 !.pc = IF leave /\ k = push.n THEN "done" ELSE "loop",
                 !.card = IF leave /\ k < push.n THEN k + 1 ELSE k,
                 !.attempt = IF leave THEN 1 ELSE push.attempt + 1]
  /\ UNCHANGED <<conVars, env, castVars, tsVars, boot, fileVars, memVars, ghostVars, stVars, attVars>>

\* main() logs "Done" and returns.
PushReturn ==
  /\ push.pc = "done"
  /\ push' = [push EXCEPT !.pc = "exited", !.outcome = "ok"]
  /\ UNCHANGED <<conVars, env, castVars, tsVars, boot, fileVars, memVars, ghostVars, stVars, attVars>>

InitPush ==
  /\ InitIndexer /\ InitEnv /\ InitStatusIdle /\ InitAttester /\ InitSurveyIdle
  /\ boot = Booted /\ InitTsIdle
  /\ \E configured \in BOOLEAN, n \in 0..MaxCards :
       \E meta \in [1..n -> BOOLEAN] : push = PushReady(configured, n, meta)

NextPush ==
  \/ PushStart
  \/ PushAttempt
  \/ PushReturn

SpecPush == InitPush /\ [][NextPush]_vars

\* Every await of the push resolves or throws (a post ends with a response or an error,
\* a sleep ends), so the function keeps taking steps.
SpecPushFair == SpecPush /\ WF_vars(NextPush)

\* ------------------------------------------------------------ toSec on its own
\* Timestamps in seconds and in milliseconds, small values, and the values around the
\* threshold 2e10 = Wide(20000000, 0)
TsThousands == {0, 1, 999, 1700, 1700000, 1793750, 2147483, 19999999, 20000000, 20000001,
                20000999, 1700000000, 1793750400, 2000000000}
TsUnits == {0, 1, 500, 999}
TsInputs == {Wide(h, l) : h \in TsThousands, l \in TsUnits}

ApplyToSec ==
  /\ tsOut = <<>>
  /\ tsOut' = <<toSecWide(tsIn)>>
  /\ UNCHANGED <<conVars, env, castVars, procVars, tsIn, lateVars, fileVars, memVars, ghostVars,
                 stVars, attVars>>

InitToSec ==
  /\ InitIndexer /\ InitBooted /\ InitEnv /\ InitStatusIdle /\ InitAttester /\ InitSurveyIdle
  /\ tsIn \in TsInputs
  /\ tsOut = <<>>
  /\ InitLateIdle

NextToSec == ApplyToSec

SpecToSec == InitToSec /\ [][NextToSec]_vars

\* ------------------------------------------------------------ timestamp fields
\* One timestamp field of one survey record, from the value on chain to surveys.json
\* and surveys.list.json, invocation after invocation. start, end, claimOpenAt and
\* claimDeadline are event arguments, written through toSec by the pass that folds the
\* event; createdAt and finalizedAt are the timestamp of the event's block, written as
\* it is. The backfill loop of every invocation then passes each stored field through
\* toSec, and the flat list passes it through toSec once more.
EventFields == {"start", "end", "claimOpenAt", "claimDeadline"}
BlockFields == {"createdAt", "finalizedAt"}

\* Event arguments: seconds, milliseconds, the values around 2e10 and 2e13, and
\* far-future values a creator may have set; block timestamps are seconds.
EventSources ==
  { Big(0, 0, 0), Big(1700, 0, 0), Big(1793, 750, 400), Big(20000, 0, 0), Big(20000, 0, 1),
    Big(25000, 0, 0), Big(1700000, 0, 0), Big(1793750, 400, 123), Big(20000000, 0, 0),
    Big(20000000, 0, 1), Big(20000000, 1, 0), Big(30000000, 0, 0), Big(253402300, 799, 0),
    Big(2000000000, 0, 0) }
BlockSources == { Big(1700, 0, 0), Big(1793, 750, 400) }

\* The invocation that folds the event: the write of Pass 1 (start, end) or of the
\* Finalized handler, the backfill loop, the save, the list.
NormFirstRun ==
  /\ norm.runs = 0
  /\ LET written == IF norm.field \in EventFields THEN toSecBig(norm.src) ELSE norm.src
         backfilled == toSecBig(written)
     IN  norm' = [norm EXCEPT !.stored = <<backfilled>>,
                              !.listed = <<toSecBig(backfilled)>>,
                              !.runs = 1]
  /\ UNCHANGED <<earlyVars, notNorm>>

\* A later invocation: surveys.json is read, the backfill loop runs, the files are saved.
NormLaterRun ==
  /\ norm.runs > 0 /\ norm.runs < MaxRuns
  /\ LET backfilled == toSecBig(norm.stored[1])
     IN  norm' = [norm EXCEPT !.stored = <<backfilled>>,
                              !.listed = <<toSecBig(backfilled)>>,
                              !.runs = @ + 1]
  /\ UNCHANGED <<earlyVars, notNorm>>

InitNorm ==
  /\ InitIndexer /\ InitBooted /\ InitEnv /\ InitStatusIdle /\ InitAttester /\ InitSurveyIdle
  /\ tsIn = Wide(0, 0) /\ tsOut = <<>>
  /\ \E fld \in EventFields \cup BlockFields :
       \E src \in (IF fld \in EventFields THEN EventSources ELSE BlockSources) :
          norm = [NoNorm EXCEPT !.field = fld, !.src = src]
  /\ metaSt = NoMeta /\ crash = NoCrash /\ life = NoLife /\ fund = NoFund /\ gateSt = NoGate

NextNorm ==
  \/ NormFirstRun
  \/ NormLaterRun

SpecNorm == InitNorm /\ [][NextNorm]_vars

\* ------------------------------------------------------------ metadata enrichment
\* A metadata document is the sequence of its <<key, value>> pairs in the order the
\* file holds them; a file is absent, broken (not JSON) or holds a document.
\* Object.keys(obj).sort() orders the keys as strings: KeyRank is that order.
KeyRank == [plannedReward |-> 1, summary |-> 2, title |-> 3]

MetaDocs ==
  { << <<"plannedReward", "5">>, <<"title", "T">> >>,
    << <<"title", "T">>, <<"plannedReward", "5">> >>,
    << <<"title", "X">>, <<"summary", "S">> >>,
    <<>> }
MetaFiles ==
  {NoFile, [kind |-> "broken", doc |-> <<>>]} \cup {[kind |-> "json", doc |-> d] : d \in MetaDocs}

\* canonicalize leaving the keys in the order of the file
canonicalizeAsWritten(doc) == doc

\* canonicalize: the pairs in sorted key order
canonicalize(doc) == SortSeq(doc, LAMBDA x, y : KeyRank[x[1]] < KeyRank[y[1]])

\* keccak256(toUtf8Bytes(s)) as a hex string: the digest is kept as what it was taken
\* of; upper tells whether the string is written with upper-case hex digits, empty
\* whether it is the empty string.
keccak256(canon) == [of |-> canon, upper |-> FALSE, empty |-> FALSE]
hashToLowerCase(h) == [h EXCEPT !.upper = FALSE]

\* The content hashes a SurveyDeployed event may carry: none, that of the first
\* document in either letter case, that of the third, that of some other document.
MetaHashes ==
  { NoHash,
    [of |-> << <<"plannedReward", "5">>, <<"title", "T">> >>, upper |-> FALSE, empty |-> FALSE],
    [of |-> << <<"plannedReward", "5">>, <<"title", "T">> >>, upper |-> TRUE, empty |-> FALSE],
    [of |-> << <<"summary", "S">>, <<"title", "X">> >>, upper |-> FALSE, empty |-> FALSE],
    [of |-> << <<"title", "other">> >>, upper |-> FALSE, empty |-> FALSE] }

\* meta?.key ?? dflt
MetaField(doc, key, dflt) ==
  IF \E i \in 1..Len(doc) : doc[i][1] = key
  THEN doc[CHOOSE i \in 1..Len(doc) : doc[i][1] = key][2]
  ELSE dflt

\* readLocalMeta: [meta, metaValid, title, summary, plannedRewardEth]
readLocalMeta(file) ==
  IF file.kind # "json"
  THEN [meta |-> <<>>, metaValid |-> FALSE, title |-> "Untitled", summary |-> "",
        plannedRewardEth |-> "0"]
  ELSE [meta |-> <<file.doc>>, metaValid |-> FALSE,
        title |-> MetaField(file.doc, "title", "Untitled"),
        summary |-> MetaField(file.doc, "summary", ""),
        plannedRewardEth |-> MetaField(file.doc, "plannedReward", "0")]

\* The body of the enrichment loop for one survey: the record's display fields and
\* metaValid, whatever the record held before
EnrichRecord(rec, file, metaHash) ==
  LET m == readLocalMeta(file)
      valid == IF m.meta # <<>> /\ ~metaHash.empty
               THEN keccak256(canonicalize(m.meta[1])) = hashToLowerCase(metaHash)
               ELSE m.metaValid
  IN  [title |-> m.title, summary |-> m.summary,
       plannedRewardEth |-> m.plannedRewardEth, metaValid |-> valid]

\* One invocation's enrichment pass over the survey
MetaEnrich ==
  /\ metaSt.runs < MaxRuns
  /\ metaSt' = [metaSt EXCEPT
        !.rec = <<EnrichRecord(metaSt.rec, metaSt.file, metaSt.metaHash)>>,
        !.before = metaSt.rec,
        !.runs = @ + 1]
  /\ UNCHANGED <<earlyVars, notMeta>>

\* Between invocations the metadata file is written, replaced or removed.
MetaFileChange ==
  /\ \E file \in MetaFiles :
       /\ file # metaSt.file
       /\ metaSt' = [metaSt EXCEPT !.file = file]
  /\ UNCHANGED <<earlyVars, notMeta>>

InitMeta ==
  /\ InitIndexer /\ InitBooted /\ InitEnv /\ InitStatusIdle /\ InitAttester /\ InitSurveyIdle
  /\ tsIn = Wide(0, 0) /\ tsOut = <<>> /\ norm = NoNorm /\ crash = NoCrash /\ life = NoLife /\ fund = NoFund
  /\ gateSt = NoGate
  /\ \E file \in MetaFiles, h \in MetaHashes : metaSt = [NoMeta EXCEPT !.file = file, !.metaHash = h]

NextMeta ==
  \/ MetaEnrich
  \/ MetaFileChange

SpecMeta == InitMeta /\ [][NextMeta]_vars

\* ------------------------------------------------------------ attester service: streams
StreamPaths == {"0xA1", "0xa1", "0xb2"}

\* GET /api/stream/:survey for any survey path
StreamOpen ==
  /\ \E c \in Conns, path \in StreamPaths :
       /\ conn[c] = "new"
       /\ conn' = [conn EXCEPT ![c] = "open"]
       /\ sseSubs' = [sseSubs EXCEPT ![c] = toLowerCase(path)]
       /\ sseOrder' = Append(sseOrder, c)
  /\ UNCHANGED <<conVars, env, procVars, tsVars, cast, fileVars, memVars, ghostVars, stVars, storeVars,
                 streams, clock, attGhost, signVars>>

\* req.on("close"): set.delete(res)
StreamClose ==
  /\ \E c \in Conns :
       /\ conn[c] = "open"
       /\ conn' = [conn EXCEPT ![c] = "closed"]
       /\ sseSubs' = [sseSubs EXCEPT ![c] = ""]
       /\ sseOrder' = SelectSeq(sseOrder, LAMBDA x : x # c)
  /\ UNCHANGED <<conVars, env, procVars, tsVars, cast, fileVars, memVars, ghostVars, stVars, storeVars,
                 streams, clock, attGhost, signVars>>

\* One call of sseBroadcast(survey, payload); the writes to the connections in failing
\* throw. Payloads are numbered so that two broadcasts never carry the same one.
Broadcast ==
  /\ cast.n < MaxCasts
  /\ \E survey \in StreamPaths, failing \in SUBSET Conns :
       /\ streams' = sseBroadcastWrites(sseOrder, sseSubs, streams, survey,
                                        cast.n + 1, failing)
       /\ cast' = [n |-> cast.n + 1, survey |-> survey, payload |-> cast.n + 1,
                   failing |-> failing]
  /\ UNCHANGED <<conVars, env, procVars, tsVars, sseOrder, fileVars, memVars, ghostVars, stVars, storeVars,
                 sseSubs, conn, clock, attGhost, signVars>>

NextStream ==
  \/ StreamOpen
  \/ StreamClose
  \/ Broadcast

SpecStream == InitService /\ [][NextStream]_vars

\* ------------------------------------------------------------ attester service: sign
EIP712_DOMAIN == [name |-> "DScopeEligibility", version |-> "1", chainId |-> CHAIN_ID,
                  verifyingContract |-> GATE_ADDR]

\* signTypedData leaving the deadline out of what it signs
signTypedDataNoDeadline(key, domain, value) ==
  [by |-> key, over |-> <<domain, [value EXCEPT !.deadline = 0]>>]

\* signer.signTypedData: a deterministic signature by the held key over the EIP-712 digest
\* of (domain, value); the digest is kept as the pair it is computed from.
signTypedData(key, domain, value) == [by |-> key, over |-> <<domain, value>>]

\* the deadline test letting the current second pass
deadlineNotPast(deadline, t) == deadline >= t

\* deadline > Math.floor(Date.now() / 1000)
deadlineInFuture(deadline, t) == deadline > t

SignError(code, why) == [status |-> code, error |-> why, signature |-> <<>>, domain |-> <<>>]

\* POST /api/eligibility/sign, from the parsed body to the response
SignHandler(req, t) ==
  LET user == toLowerCase(req.user)
      survey == toLowerCase(req.survey)
      nullifier == toLowerCase(req.nullifier)
      deadline == req.deadline
  IN
  IF ATTESTER_PRIVKEY = "" THEN SignError(500, "ATTESTER_PRIVKEY not set")
  ELSE IF ~isAddress(GATE_ADDR) THEN SignError(500, "Bad GATE_ADDR")
  ELSE IF ~isAddress(user) THEN SignError(400, "bad user")
  ELSE IF ~isAddress(survey) THEN SignError(400, "bad survey")
  ELSE IF ~nullifierOk(nullifier) THEN SignError(400, "bad nullifier")
  ELSE IF ~deadlineInFuture(deadline, t) THEN SignError(400, "bad deadline")
  ELSE
    LET domain == IF req.gate # "" /\ isAddress(req.gate)
                  THEN [EIP712_DOMAIN EXCEPT !.verifyingContract = toLowerCase(req.gate)]
                  ELSE EIP712_DOMAIN
        value == [user |-> user, survey |-> survey, nullifier |-> nullifier,
                  deadline |-> deadline, chainId |-> domain.chainId]
    IN  [status |-> 200, error |-> "",
         signature |-> <<signTypedData(ATTESTER_PRIVKEY, domain, value)>>,
         domain |-> <<domain>>]

SignReq(u, sv, n, d, g) == [user |-> u, survey |-> sv, nullifier |-> n, deadline |-> d, gate |-> g]

\* Bodies a client may post to /api/eligibility/sign: one request and its variations.
SignRequests ==
  LET late == ClockTicks[2] + 1
  IN  { SignReq("0xU1", "0xA1", "0xN1", late, ""),
        SignReq("0xu1", "0xA1", "0xN1", late, ""),
        SignReq("0xu3", "0xA1", "0xN1", late, ""),
        SignReq("bad", "0xA1", "0xN1", late, ""),
        SignReq("0xU1", "0xb2", "0xN1", late, ""),
        SignReq("0xU1", "bad", "0xN1", late, ""),
        SignReq("0xU1", "0xA1", "0xn2", late, ""),
        SignReq("0xU1", "0xA1", "bad", late, ""),
        SignReq("0xU1", "0xA1", "0xN1", 0, ""),
        SignReq("0xU1", "0xA1", "0xN1", ClockTicks[1], ""),
        SignReq("0xU1", "0xA1", "0xN1", ClockTicks[1] + 1, ""),
        SignReq("0xU1", "0xA1", "0xN1", late, "0xG2"),
        SignReq("0xU1", "0xA1", "0xN1", late, "0xg1"),
        SignReq("0xU1", "0xA1", "0xN1", late, "bad") }

Sign ==
  /\ \E r \in SignRequests :
       /\ signLast' = [req |-> <<r>>, at |-> ClockTicks[clock],
                        resp |-> SignHandler(r, ClockTicks[clock])]
       /\ signPrev' = signLast
  /\ UNCHANGED <<extVars, fileVars, memVars, ghostVars, stVars, storeVars, sseVars, clock, attGhost>>

\* The service when a sign request comes in: just started, or after a first submission
\* with a subscriber connected.
FirstSubmit == SubmitReq("0xA1", "schemaKyc", "", "", "0xN1")

AfterFirstSubmit ==
  LET out == SubmitHandler(NoFiles, NoFiles, FirstSubmit, ClockTicks[1])
  IN  /\ peopleFile = out.people
      /\ anaFile = out.ana
      /\ sseSubs = [c \in Conns |-> IF c = "r1" THEN "0xa1" ELSE ""]
      /\ sseOrder = <<"r1">>
      /\ cast = NoCast
      /\ conn = [c \in Conns |-> IF c = "r1" THEN "open" ELSE "new"]
      /\ streams = [c \in Conns |-> IF c = "r1" THEN <<out.payload[1]>> ELSE <<>>]
      /\ clock = 1
      /\ inflight = <<>>
      /\ stale = [people |-> NoFiles, ana |-> NoFiles]
      /\ last = [req |-> FirstSubmit, resp |-> out.resp]
      /\ nArrived = 1
      /\ overlapped = FALSE
      /\ serialPeople = out.people
      /\ serialAna = out.ana
      /\ lastBy = [k \in SurveyKeys \X NullKeys |->
                     IF k = <<"0xa1", "0xn1">> THEN <<FirstSubmit>> ELSE <<>>]
      /\ rawSeen = {}
      /\ signLast = NoSign
      /\ signPrev = NoSign

InitSigner ==
  /\ InitIndexer /\ InitBooted /\ InitTsIdle /\ InitEnv /\ InitStatusIdle /\ InitSurveyIdle
  /\ (InitAttester \/ AfterFirstSubmit)

NextSigner ==
  \/ Sign
  \/ Tick

SpecSigner == InitSigner /\ [][NextSigner]_vars

\* ------------------------------------------------------------ eligibility gate
\* EligibilityGateEIP712 exists twice in the sources: src/unnamed/part_004 takes the
\* type hash as keccak256 of the type string and recovers with OpenZeppelin's ECDSA;
\* src/contracts/gate/EligibilityGateEIP712.sol carries the type hash as a literal and
\* recovers with ecrecover. gate = [impl, addr, chainid, attester] is one deployment.
GateImpls == {"part_004", "contracts/gate"}

EligibilityType ==
  "Eligibility(address user,address survey,bytes32 nullifier,uint256 deadline,uint256 chainId)"

\* keccak256 of a string, on the strings hashed here
keccak256Of(str) ==
  IF str = EligibilityType
  THEN "0x300c3598dfdf25ad99d9d9be40ec48557f2d692e7a1b34ebfa0cd3d79d6473f1"
  ELSE "0x"

ELIGIBILITY_TYPEHASH(impl) ==
  IF impl = "part_004" THEN keccak256Of(EligibilityType)
  ELSE "0x8f6cce3b66b5e7f0c3e2a9182b0c3e6d4b2d8b36a9a9d3e2f23800d0d9d1f7e6"

\* The address of a private key
AddressOf(key) == IF key = ATTESTER_PRIVKEY THEN "0xatt" ELSE "0xeve"

\* _domainSeparator and _hashEligibility: the digest, kept as what it is computed from
hashEligibility(g, user, survey, nullifier, deadline) ==
  [typeHash |-> ELIGIBILITY_TYPEHASH(g.impl),
   domain |-> [name |-> "DScopeEligibility", version |-> "1", chainId |-> g.chainid,
               verifyingContract |-> g.addr],
   value |-> [user |-> user, survey |-> survey, nullifier |-> nullifier,
              deadline |-> deadline, chainId |-> g.chainid]]

\* The digest ethers signs in signTypedData(domain, EIP712_TYPES, value): the type hash is
\* that of the type string EIP712_TYPES encodes to.
TypedDataDigest(over) ==
  [typeHash |-> keccak256Of(EligibilityType), domain |-> over[1], value |-> over[2]]

\* A signature handed to verify: [len, sig] with sig = <<signature>> or <<>> for bytes
\* that are no signature. The signer of a signature over another digest is some
\* address nobody holds the key of.
Recovered(digest, off) ==
  IF TypedDataDigest(off.sig[1].over) = digest THEN AddressOf(off.sig[1].by) ELSE "0xnobody"

\* verify of src/unnamed/part_004 (attester is an externally owned account)
verifyEcdsa(g, account, survey, nullifier, deadline, off, t) ==
  IF t > deadline THEN FALSE
  ELSE IF off.len # 64 /\ off.len # 65 THEN FALSE
  ELSE IF off.sig = <<>> THEN FALSE
  ELSE Recovered(hashEligibility(g, account, survey, nullifier, deadline), off) = g.attester

\* verify of src/contracts/gate/EligibilityGateEIP712.sol: ecrecover gives the zero
\* address for bytes that are no signature
verifyEcrecover(g, account, survey, nullifier, deadline, off, t) ==
  IF t > deadline THEN FALSE
  ELSE IF off.len = 65
  THEN (IF off.sig = <<>> THEN ZeroAddr
        ELSE Recovered(hashEligibility(g, account, survey, nullifier, deadline), off))
       = g.attester
  ELSE FALSE

verify(g, account, survey, nullifier, deadline, off, t) ==
  IF g.impl = "part_004"
  THEN verifyEcdsa(g, account, survey, nullifier, deadline, off, t)
  ELSE verifyEcrecover(g, account, survey, nullifier, deadline, off, t)

\* Deployments: at the configured gate address or another, on the signer's chain or
\* another, with the signer's address, another or (where the constructor lets it pass)
\* the zero address as attester.
GateDeployments ==
  {g \in [impl : GateImpls, addr : {GATE_ADDR, "0xg2"}, chainid : {CHAIN_ID, CHAIN_ID + 1},
          attester : {"0xatt", "0xeve", ZeroAddr}] :
     g.impl = "part_004" => g.attester # ZeroAddr}

\* block.timestamp, and the signer's clock
GateTimes == <<ClockTicks[1], ClockTicks[1] + 1, ClockTicks[2]>>

\* The signatures somebody can hand to verify for given arguments: the one the signer
\* issued, one by another key over the gate's own domain and exactly these arguments,
\* 65 bytes that are no signature, 3 bytes.
OfferedSigs(g, account, survey, nullifier, deadline) ==
  {[len |-> 65, sig |-> <<gateSt.issued[i].signature[1]>>] : i \in 1..Len(gateSt.issued)}
  \cup
  {[len |-> 65,
    sig |-> <<signTypedData("key2",
                hashEligibility(g, account, survey, nullifier, deadline).domain,
                hashEligibility(g, account, survey, nullifier, deadline).value)>>],
   [len |-> 65, sig |-> <<>>],
   [len |-> 3, sig |-> <<>>]}

\* The signer answers a sign request with a signature.
GateIssue ==
  /\ gateSt.issued = <<>>
  /\ \E r \in SignRequests :
       LET resp == SignHandler(r, GateTimes[gateSt.time])
       IN  /\ resp.status = 200
           /\ gateSt' = [gateSt EXCEPT !.issued = <<resp>>]
  /\ UNCHANGED <<earlyVars, notGate>>

\* Somebody calls verify. verify is a view function: the call changes nothing, so one
\* call per behaviour, after any issue and at any block time, shows every call.
GateVerify ==
  /\ gateSt.call = <<>>
  /\ \E account \in {"0xu1", "0xu3"}, survey \in {"0xa1", "0xb2"}, nullifier \in NullKeys,
        deadline \in {ClockTicks[1] + 1, ClockTicks[2] + 1} :
       \E off \in OfferedSigs(gateSt.gate, account, survey, nullifier, deadline) :
         gateSt' = [gateSt EXCEPT !.call =
            <<[account |-> account, survey |-> survey, nullifier |-> nullifier,
               deadline |-> deadline, off |-> off, at |-> GateTimes[gateSt.time],
               result |-> verify(gateSt.gate, account, survey, nullifier, deadline, off,
                                 GateTimes[gateSt.time])]>>]
  /\ UNCHANGED <<earlyVars, notGate>>

\* Time passes.
GateMine ==
  /\ gateSt.time < Len(GateTimes)
  /\ gateSt' = [gateSt EXCEPT !.time = @ + 1]
  /\ UNCHANGED <<earlyVars, notGate>>

InitGate ==
  /\ InitIndexer /\ InitBooted /\ InitEnv /\ InitStatusIdle /\ InitAttester /\ InitSurveyIdle
  /\ tsIn = Wide(0, 0) /\ tsOut = <<>>
  /\ norm = NoNorm /\ metaSt = NoMeta /\ crash = NoCrash /\ life = NoLife /\ fund = NoFund
  /\ \E g \in GateDeployments : gateSt = [NoGate EXCEPT !.gate = g]

NextGate ==
  \/ GateIssue
  \/ GateVerify
  \/ GateMine

SpecGate == InitGate /\ [][NextGate]_vars

\* ------------------------------------------------------------ process start
\* What the environment may hold: a factory address or none, the attester key or none,
\* the gate address or none.
BootConfigs == [factory : BOOLEAN, key : {"", ATTESTER_PRIVKEY}, gate : {"", GATE_ADDR}]

MaxServed == 2      \* requests the started service answers

BootOff(proc, cfg) ==
  [proc |-> proc, cfg |-> cfg, stage |-> "off", outputs |-> FALSE, dirs |-> FALSE, served |-> 0]

\* requireEnvReady(): the message it throws, "" when it returns
requireEnvReady(key, gate) ==
  IF key = "" THEN "ATTESTER_PRIVKEY not set"
  ELSE IF ~isAddress(gate) THEN "Bad GATE_ADDR"
  ELSE ""

\* ci-indexer.ts is loaded: the configuration is read and a missing factory throws.
IndexerLoad ==
  /\ boot.proc = "indexer" /\ boot.stage = "off"
  /\ boot' = [boot EXCEPT !.stage = IF boot.cfg.factory THEN "loaded" ELSE "fatal"]
  /\ UNCHANGED <<conVars, env, castVars, tsVars, push, fileVars, memVars, ghostVars, stVars, attVars>>

\* main() begins: ensureOutputs()
IndexerEnsureOutputs ==
  /\ boot.proc = "indexer" /\ boot.stage = "loaded"
  /\ boot' = [boot EXCEPT !.stage = "up", !.outputs = TRUE]
  /\ UNCHANGED <<conVars, env, castVars, tsVars, push, fileVars, memVars, ghostVars, stVars, attVars>>

\* main() goes on: the invocations of the started indexer
IndexerRun == boot.proc = "indexer" /\ boot.stage = "up" /\ NextScan

\* The attester module is loaded: the output directories are made, the signer is built
\* when a key is present, and app.listen is called. Nothing on this path reads
\* requireEnvReady.
AttesterLoad ==
  /\ boot.proc = "attester" /\ boot.stage = "off"
  /\ boot' = [boot EXCEPT !.stage = "up", !.dirs = TRUE]
  /\ UNCHANGED <<conVars, env, castVars, tsVars, push, fileVars, memVars, ghostVars, stVars, attVars>>

\* The listening service answers one submit request.
ServeSubmit ==
  /\ boot.proc = "attester" /\ boot.stage = "up" /\ boot.served < MaxServed
  /\ \E req \in SubmitRequests :
       LET out == SubmitHandler(peopleFile, anaFile, req, ClockTicks[clock])
       IN  /\ peopleFile' = out.people
           /\ anaFile' = out.ana
           /\ last' = [req |-> req, resp |-> out.resp]
  /\ boot' = [boot EXCEPT !.served = @ + 1]
  /\ UNCHANGED <<conVars, env, castVars, tsVars, push, fileVars, memVars, ghostVars, stVars,
                 sseVars, clock, inflight, stale, nArrived, overlapped, serialPeople,
                 serialAna, lastBy, rawSeen, signVars>>

\* The listening service answers one sign request: requireEnvReady() is its first line.
ServeSign ==
  /\ boot.proc = "attester" /\ boot.stage = "up" /\ boot.served < MaxServed
  /\ \E r \in SignRequests :
       LET why == requireEnvReady(boot.cfg.key, boot.cfg.gate)
       IN  /\ signLast' = [req |-> <<r>>, at |-> ClockTicks[clock],
                            resp |-> IF why # "" THEN SignError(500, why)
                                     ELSE SignHandler(r, ClockTicks[clock])]
           /\ signPrev' = signLast
  /\ boot' = [boot EXCEPT !.served = @ + 1]
  /\ UNCHANGED <<conVars, env, castVars, tsVars, push, fileVars, memVars, ghostVars, stVars,
                 storeVars, sseVars, clock, attGhost>>

InitStartup ==
  /\ InitIndexer /\ InitEnv /\ InitStatusIdle /\ InitAttester /\ InitSurveyIdle
  /\ push = NoPush /\ InitTsIdle
  /\ \E proc \in {"indexer", "attester"}, cfg \in BootConfigs : boot = BootOff(proc, cfg)

NextStartup ==
  \/ IndexerLoad
  \/ IndexerEnsureOutputs
  \/ IndexerRun
  \/ AttesterLoad
  \/ ServeSubmit
  \/ ServeSign

SpecStartup == InitStartup /\ [][NextStartup]_vars

\* ------------------------------------------------------------ Survey contract: transactions
\* A transaction is atomic: it runs to its end or reverts with the storage untouched.
Selections == {<<0>>, <<0, 1>>, <<2>>}

\* selectedOptionsPerQuestion: one selection per question of the survey, or an array of
\* another length
VoteInputs(n) == [1..n -> Selections] \cup {IF n = 0 THEN << <<0>> >> ELSE <<>>}

\* _text and _options.length of addQuestion
QuestionInputs == {<<"q", 2>>, <<"", 2>>, <<"q", 0>>, <<"q", 33>>}

\* _claimOpenAt and _claimDeadline: the two-argument finalize passes 0 and 0
ClaimWindows == {<<0, 0>>, <<30, 40>>}

\* The entry point a deployment does not offer (vote when gated, voteWithGate when not)
\* reverts on its first line: one array stands for every array sent to it.
VoteCalls(st, offered) == IF offered THEN VoteInputs(Len(st.questions)) ELSE {<<>>}

Tx(fn, sender, out) == [fn |-> fn, sender |-> sender, ok |-> out.ok]

TxAddQuestion ==
  /\ Len(storage.questions) < MaxQuestions
  /\ \E sender \in Accounts, q \in QuestionInputs, selectionType \in {SINGLE, MULTIPLE} :
       LET out == addQuestion(storage, sender, q[1], q[2], selectionType,
                              BlockTimes[blockTime])
       IN  /\ storage' = out.st
           /\ lastTx' = Tx("addQuestion", sender, out)
  /\ UNCHANGED <<fileVars, memVars, ghostVars, stVars, attVars, env, castVars, procVars, tsVars,
                 isEligible, blockTime, ctorArgs, voted>>

TxVote ==
  /\ \E sender \in Accounts, sel \in VoteCalls(storage, storage.gate = ZeroAddr) :
       LET out == vote(storage, sender, sel, BlockTimes[blockTime])
       IN  /\ storage' = out.st
           /\ lastTx' = Tx("vote", sender, out)
           /\ voted' = IF out.ok THEN voted \cup {sender} ELSE voted
  /\ UNCHANGED <<fileVars, memVars, ghostVars, stVars, attVars, env, castVars, procVars, tsVars,
                 isEligible, blockTime, ctorArgs>>

TxVoteWithGate ==
  /\ \E sender \in Accounts, sel \in VoteCalls(storage, storage.gate # ZeroAddr) :
       LET out == voteWithGate(storage, sender, sel, BlockTimes[blockTime],
                               sender \in isEligible)
       IN  /\ storage' = out.st
           /\ lastTx' = Tx("voteWithGate", sender, out)
           /\ voted' = IF out.ok THEN voted \cup {sender} ELSE voted
  /\ UNCHANGED <<fileVars, memVars, ghostVars, stVars, attVars, env, castVars, procVars, tsVars,
                 isEligible, blockTime, ctorArgs>>

\* finalize(rulesHash, resultsHash) and finalize(rulesHash, resultsHash, open, deadline)
TxFinalize ==
  /\ \E sender \in Accounts, rulesHash \in {"r1", "r2"}, resultsHash \in {"x1"},
        w \in ClaimWindows :
       LET out == finalizeCommon(storage, sender, rulesHash, resultsHash,
                                 w[1], w[2], BlockTimes[blockTime])
       IN  /\ storage' = out.st
           /\ lastTx' = Tx("finalize", sender, out)
  /\ UNCHANGED <<fileVars, memVars, ghostVars, stVars, attVars, env, castVars, procVars, tsVars,
                 isEligible, blockTime, ctorArgs, voted>>

\* ZkPassEligibilityGate.attest with a proof that verifies, for this survey
TxAttest ==
  /\ storage.gate # ZeroAddr
  /\ \E user \in Accounts :
       /\ user \notin isEligible
       /\ isEligible' = isEligible \cup {user}
  /\ UNCHANGED <<fileVars, memVars, ghostVars, stVars, attVars, env, castVars, procVars, tsVars,
                 storage, blockTime, lastTx, ctorArgs, voted>>

\* The next block is mined at a later time.
Mine ==
  /\ blockTime < Len(BlockTimes)
  /\ blockTime' = blockTime + 1
  /\ UNCHANGED <<fileVars, memVars, ghostVars, stVars, attVars, env, castVars, procVars, tsVars,
                 storage, isEligible, lastTx, ctorArgs, voted>>

NextSurvey ==
  \/ TxAddQuestion
  \/ TxVote
  \/ TxVoteWithGate
  \/ TxFinalize
  \/ TxAttest
  \/ Mine

\* A Survey contract as some constructor call deployed it.
InitSurvey ==
  /\ InitIndexer /\ InitBooted /\ InitTsIdle /\ InitEnv /\ InitStatusIdle /\ InitAttester
  /\ \E a \in CtorArgs : Deployed(a)

SpecSurvey == InitSurvey /\ [][NextSurvey]_vars

\* ------------------------------------------------------------ properties
IsPrefix(a, b) == Len(a) <= Len(b) /\ SubSeq(b, 1, Len(a)) = a

IsFunded(sv, a) == a \in DOMAIN sv.rec /\ sv.rec[a].funded

FundingHash(sv, a) == IF a \in DOMAIN sv.rec THEN sv.rec[a].fundingTxHash ELSE "null"

TreasuryCount(ledger, a) ==
  Cardinality({i \in 1..Len(ledger) : ledger[i].t = "TreasuryFunded" /\ ledger[i].survey = a})

RECURSIVE SumAmounts(_)
SumAmounts(S) ==
  IF S = {} THEN 0
  ELSE LET i == CHOOSE x \in S : TRUE IN ChainLogs[i].amount + SumAmounts(S \ {i})

\* PrizeFunded logs of survey a inside the ranges scanned so far
FundedLogs(a) ==
  {i \in inRange : ChainLogs[i].address = a /\ ChainLogs[i].name = "PrizeFunded"}

NoReset == snap = NoSnap

\* C1: after a range has been scanned, the cursor put back and the same range scanned
\* again (no query lost), balances and prizeFunded / prizeSwept equal their values after
\* the first scan.
C1_IdempotentRescan ==
  (replay = "done" /\ ~lostQuery) =>
     (balFile = snap.bal /\ PrizeOf(survFile) = snap.prize)

\* C2: the lastBlock an invocation writes is at least the lastBlock it read at its start.
C2_CursorNeverDecreases ==
  [][SaveState => stateFile'.lastBlock >= stateRead]_vars

\* C3: at the end of an invocation every factory or known-survey log at a scanned
\* height at or below the persisted cursor has been handed to the reducer.
C3_CursorCoversFolded ==
  pc = "idle" =>
    \A i \in inRange :
      (/\ ChainLogs[i].blockNumber <= stateFile.lastBlock
       /\ ChainLogs[i].address \in Range(FACTORIES) \cup DOMAIN survFile.rec)
      => i \in folded

\* C4: an invocation whose Pass 1 lost the factory logs of a batch does not persist a
\* cursor at or past that batch.
C4_DiscoveryFailureFatal ==
  (pc = "idle" /\ discFailAt # 0) => stateFile.lastBlock < discFailAt

\* C5: with no query lost (and no manual reset), a survey's stored prizeFunded equals the
\* sum of the amounts of its PrizeFunded logs in the scanned ranges.
C5_AccumulatorExactSum ==
  (pc = "idle" /\ ~lostQuery /\ NoReset) =>
    \A a \in DOMAIN survFile.rec : survFile.rec[a].prizeFunded = SumAmounts(FundedLogs(a))

\* C6: a record's funded flag turns true only for a submission whose receipt succeeded,
\* with enough confirmations, sent to the treasury, by the survey's creator, of at least
\* the planned reward.
C6_FundingAcceptance ==
  [][\A a \in SurveyAddrs :
       (IsFunded(surveys', a) /\ ~IsFunded(surveys, a)) =>
         LET tx == fundingDir[a]
         IN  /\ tx # "none"
             /\ TxTable[tx].status = 1
             /\ latest - TxTable[tx].blockNumber + 1 >= MIN_CONF
             /\ TxTable[tx].to = TREASURY_SAFE
             /\ TxTable[tx].from = surveys.rec[a].creator
             /\ TxTable[tx].value >= surveys.rec[a].plannedRewardWei]_vars

C6_Witness ==
  /\ pc = "saveBal"
  /\ IsFunded(surveys, "s1")
  /\ ~IsFunded(survFile, "s1")
  /\ surveys.rec["s1"].fundingTxHash = fundingDir["s1"]

\* C7: once a record is funded it stays funded, its fundingTxHash never changes and no
\* further TreasuryFunded record is appended for it.
C7_FundedIsFinal ==
  [][\A a \in SurveyAddrs :
       /\ IsFunded(surveys, a) =>
            /\ IsFunded(surveys', a)
            /\ FundingHash(surveys', a) = FundingHash(surveys, a)
            /\ TreasuryCount(ledgerFile', a) = TreasuryCount(ledgerFile, a)
       /\ IsFunded(survFile, a) =>
            /\ IsFunded(survFile', a)
            /\ FundingHash(survFile', a) = FundingHash(survFile, a)]_vars

\* A later invocation has seen the SurveyDeployed log of a funded survey again and its
\* funding pass has met the record, already funded, with the submission still on file.
C7_Witness ==
  /\ pc = "saveBal"
  /\ IsFunded(survFile, "s1")
  /\ fundingDir["s1"] # "none"
  /\ TreasuryCount(ledgerFile, "s1") = 1
  /\ Cardinality({i \in 1..Len(ledgerFile) :
                    ledgerFile[i].t = "SurveyDeployed" /\ ledgerFile[i].survey = "s1"}) >= 2

\* C8: computeStatus follows the precedence finalized => past, now >= end => past,
\* now < start => upcoming, else active, an unset or zero time being absent.
IsSet(x) == x # Null /\ x # <<0>>
StatusByPrecedence(in) ==
  IF IsSet(in.finalized) THEN "past"
  ELSE IF IsSet(in.end) /\ in.now >= in.end[1] THEN "past"
  ELSE IF IsSet(in.start) /\ in.now < in.start[1] THEN "upcoming"
  ELSE "active"
StatusExample(s, e, fin, n) == [start |-> s, end |-> e, finalized |-> fin, now |-> n]

C8_StatusPrecedence ==
  stOut # "none" =>
    /\ stOut \in {"past", "upcoming", "active"}
    /\ stOut = StatusByPrecedence(stIn)
    /\ stIn = StatusExample(<<100>>, <<200>>, Null, 150) => stOut = "active"
    /\ stIn = StatusExample(<<100>>, <<200>>, Null, 250) => stOut = "past"
    /\ stIn = StatusExample(<<300>>, <<400>>, Null, 50) => stOut = "upcoming"
    /\ stIn = StatusExample(<<100>>, <<200>>, <<210>>, 150) => stOut = "past"

C8_Witness ==
  stIn = StatusExample(<<300>>, <<400>>, Null, 50) /\ stOut = "upcoming"

\* C9: the five published files always come from the same invocation.
C9_PublishAtomic ==
  \A x, y \in FileNames : pubGen[x] = pubGen[y]

\* C10: the ledger only grows: every step leaves the old ledger a prefix of the new one.
C10_LedgerAppendOnly ==
  [][IsPrefix(ledgerFile, ledgerFile')]_vars

C10_Witness ==
  pc = "idle" /\ runs >= 2 /\ Len(ledgerFile) >= 6

\* ------------------------------------------------------------ properties of the attester
\* The step is the handling of a submit request.
Handled == Len(inflight') < Len(inflight)

RowCounters(A) == [i \in 1..Len(A.rows) |->
                     <<A.rows[i].count, A.rows[i].kycOk, A.rows[i].ageBuckets>>]

Counters(af) == [s \in DOMAIN af |-> RowCounters(af[s])]

\* C11: when a request equal to the last accepted request of the same pseudonym in the
\* same survey is handled, no AggregateRow counter changes and the response says deduped.
C11_DedupOnIngest ==
  [][\A k \in DOMAIN lastBy :
       (Handled /\ lastBy[k] = <<last'.req>> /\ last'.resp.status = 200) =>
          /\ Counters(anaFile') = Counters(anaFile)
          /\ last'.resp.deduped]_vars

\* C11 while the clock stands still between the two requests
C11_DedupSameInstant ==
  [][\A k \in DOMAIN lastBy :
       (Handled /\ lastBy[k] = <<last'.req>> /\ last'.resp.status = 200 /\ clock = 1) =>
          /\ Counters(anaFile') = Counters(anaFile)
          /\ last'.resp.deduped]_vars

Nullifiers(people) == {people[i].nullifier : i \in 1..Len(people)}

\* C12: for every survey the counts of its rows add up to the stored total, and that is
\* the number of distinct pseudonyms in its people file.
C12_AggregateConsistency ==
  \A s \in DOMAIN peopleFile \cup DOMAIN anaFile :
     LET A == readAnalytics(anaFile, s, 0)
     IN  /\ SumOver(A.rows, "count") = A.total
         /\ A.total = Cardinality(Nullifiers(loadPeople(peopleFile, s)))

C12_Witness ==
  /\ "0xa1" \in DOMAIN anaFile
  /\ anaFile["0xa1"].total = 2
  /\ Len(anaFile["0xa1"].rows) = 2
  /\ inflight = <<>> /\ nArrived = 2

PersonKey(p) == <<OrUnknown(p.region), p.country>>

\* C13: the count of every row equals the number of distinct pseudonyms whose stored
\* region and country are the row's key.
C13_RowCountMatchesPeople ==
  \A s \in DOMAIN anaFile :
    \A i \in 1..Len(anaFile[s].rows) :
       LET people == loadPeople(peopleFile, s)
       IN  anaFile[s].rows[i].count =
             Cardinality({people[j].nullifier : j \in
                            {j \in 1..Len(people) : PersonKey(people[j]) = RowKey(anaFile[s].rows[i])}})

\* C14: a submission answered deduped leaves the people files and the analytics files as
\* they were and writes to no subscriber.
C14_DedupedWritesNothing ==
  [][(Handled /\ last'.resp.deduped) =>
        /\ peopleFile' = peopleFile
        /\ anaFile' = anaFile
        /\ streams' = streams]_vars

WellFormedSurvey(x) == x \in {"0xA1", "0xa1", "0xb2"}
WellFormedPseudonym(x) == x \in {"0xN1", "0xn1", "0xn2"}

\* C16: a submission whose survey is no address or whose pseudonym is not 0x and 64 hex
\* digits is answered 400 with an error, and changes no store, stream or subscriber set.
C16_MalformedSubmitRejected ==
  [][(Handled /\ (~WellFormedSurvey(last'.req.survey)
                  \/ ~WellFormedPseudonym(last'.req.nullifier))) =>
        /\ last'.resp.status = 400
        /\ last'.resp.error # ""
        /\ peopleFile' = peopleFile
        /\ anaFile' = anaFile
        /\ streams' = streams
        /\ sseSubs' = sseSubs]_vars

C16_Witness ==
  /\ last.resp.status = 400
  /\ last.req.survey = "bad"
  /\ "0xa1" \in DOMAIN anaFile
  /\ conn["r1"] = "open"

PersistedStrings ==
  UNION {UNION {{peopleFile[s][i].ageBucket, peopleFile[s][i].region, peopleFile[s][i].country}
                  : i \in 1..Len(peopleFile[s])} : s \in DOMAIN peopleFile}
  \cup
  UNION {UNION {{anaFile[s].rows[i].region, anaFile[s].rows[i].country}
                  : i \in 1..Len(anaFile[s].rows)} : s \in DOMAIN anaFile}

\* C17: no birthday and no country value received in a submission is in a people file or
\* an analytics file.
C17_NoRawValuePersisted ==
  PersistedStrings \cap rawSeen = {}

\* C17 for birthdays alone
C17_NoBirthdayPersisted ==
  PersistedStrings \cap DOMAIN BirthSec = {}

DeltaOf(resp) ==
  [type |-> "append",
   row |-> [region |-> resp.applied.region, country |-> resp.applied.country,
            count |-> resp.applied.countDelta, kycOk |-> resp.applied.kycDelta,
            ageBuckets |-> resp.applied.ageDelta]]

\* C18: an applied submission to survey S writes its delta record once to every
\* connection then subscribed to S and to no other connection; a deduplicated (or
\* rejected) submission writes to none.
C18_DeltaToSubscribers ==
  [][Handled =>
       IF last'.resp.status = 200 /\ ~last'.resp.deduped
       THEN \A c \in Conns :
              streams'[c] = IF conn[c] = "open" /\ sseSubs[c] = toLowerCase(last'.req.survey)
                            THEN Append(streams[c], DeltaOf(last'.resp))
                            ELSE streams[c]
       ELSE streams' = streams]_vars

C18_Witness ==
  /\ conn["r1"] = "open" /\ conn["r2"] = "open"
  /\ Len(streams["r1"]) = 1 /\ streams["r2"] = <<>>
  /\ streams["r1"][1].row.count = 1
  /\ last.resp.deduped

\* AfterFirstSubmit is a state of the service
AfterFirstSubmitReached == AfterFirstSubmit

Signed(x) == x.resp.status = 200

\* C19: a sign request is answered with a signature only if subject and survey are
\* addresses, the pseudonym is 0x and 64 hex digits and the expiry is later than the
\* current second; any other request is answered with an error and no signature.
C19_SignOnlyWellFormed ==
  signLast.req # <<>> =>
    LET r == signLast.req[1]
    IN  /\ Signed(signLast) =>
             /\ r.user \in {"0xU1", "0xu1", "0xu3"}
             /\ WellFormedSurvey(r.survey)
             /\ WellFormedPseudonym(r.nullifier)
             /\ r.deadline > signLast.at
             /\ signLast.resp.signature # <<>>
        /\ ~Signed(signLast) =>
             /\ signLast.resp.error # ""
             /\ signLast.resp.signature = <<>>

C19_Witness ==
  /\ Signed(signLast)
  /\ signPrev.req # <<>>
  /\ signPrev.req[1].deadline = ClockTicks[1]
  /\ signPrev.resp.status = 400

\* What a signature is said to depend on: subject, survey, pseudonym (as addresses and
\* hex values, whatever the letter case), expiry, chain id and the domain answered.
SignedFields(x) ==
  LET r == x.req[1]
  IN  <<toLowerCase(r.user), toLowerCase(r.survey), toLowerCase(r.nullifier), r.deadline,
        x.resp.domain[1].chainId, x.resp.domain[1]>>

\* C20: two signed requests with the same (subject, survey, pseudonym, expiry, chainId,
\* domain) get the same signature, two that differ in one of them get different ones, and
\* a sign request changes no people file, analytics file, subscriber set or stream.
C20_SignatureDeterminism ==
  /\ [] ((Signed(signLast) /\ Signed(signPrev)) =>
           ((SignedFields(signLast) = SignedFields(signPrev))
              <=> (signLast.resp.signature = signPrev.resp.signature)))
  /\ [][(signLast' # signLast \/ signPrev' # signPrev) =>
          (peopleFile' = peopleFile /\ anaFile' = anaFile
           /\ sseSubs' = sseSubs /\ streams' = streams)]_vars

C20_Witness ==
  /\ Signed(signLast) /\ Signed(signPrev)
  /\ signLast.req[1].deadline # signPrev.req[1].deadline
  /\ signLast.at # signPrev.at
  /\ "0xa1" \in DOMAIN peopleFile

\* ------------------------------------------------------------ properties of the Survey contract
\* The step is a vote or voteWithGate transaction.
VoteStep == lastTx'.fn \in {"vote", "voteWithGate"} /\ (lastTx' # lastTx \/ storage' # storage)

\* The step is a finalize transaction.
FinalizeStep == lastTx'.fn = "finalize" /\ (lastTx' # lastTx \/ storage' # storage)

InWindow(st, t) == st.startTime <= t /\ t <= st.endTime

\* The tallies: the participants and the votes per option of every question.
Tallies(st) ==
  <<st.participants, [i \in 1..Len(st.questions) |-> st.questions[i].votesPerOption]>>

\* C21: getParticipantsCount is the number of distinct addresses whose vote succeeded and
\* no address is a participant twice; a vote succeeds only inside [startTime, endTime]
\* with at least one question; a vote by an address that has voted is rejected and changes
\* no tally (nor anything else in storage).
C21_VoteOncePerAddress ==
  /\ [] /\ getParticipantsCount(storage) = Cardinality(voted)
        /\ Range(storage.participants) = voted
  /\ [][VoteStep =>
          /\ (lastTx'.ok /\ storage' # storage) =>
                /\ InWindow(storage, BlockTimes[blockTime])
                /\ getQuestionsCount(storage) > 0
                /\ lastTx'.sender \notin voted
          /\ lastTx'.sender \in voted =>
                /\ ~lastTx'.ok
                /\ Tallies(storage') = Tallies(storage)
                /\ storage' = storage]_vars

\* Two addresses have voted and a further vote of one of them, inside the window, failed.
C21_Witness ==
  /\ voted = {"c1", "v1"}
  /\ lastTx.fn \in {"vote", "voteWithGate"} /\ lastTx.sender = "v1" /\ ~lastTx.ok
  /\ InWindow(storage, BlockTimes[blockTime])
  /\ getParticipantsCount(storage) = 2

Anchors(st) == <<st.rulesHash, st.resultsHash, st.claimOpenAt, st.claimDeadline>>

\* C22: finalized turns true only in a finalize transaction sent by the creator at a block
\* time >= endTime with at least one question; once finalized, a further finalize is
\* rejected, finalized stays true and rulesHash, resultsHash, claimOpenAt, claimDeadline
\* keep their values; startTime, endTime, surveyType and metaHash (and the creator) always
\* equal the constructor's arguments.
C22_FinalizeOnce ==
  /\ [] /\ storage.startTime = ctorArgs.startTime
        /\ storage.endTime = ctorArgs.endTime
        /\ storage.surveyType = ctorArgs.surveyType
        /\ storage.metaHash = ctorArgs.metaHash
        /\ storage.creator = ctorArgs.creator
  /\ [][/\ (storage'.finalized /\ ~storage.finalized) =>
             /\ lastTx'.fn = "finalize" /\ lastTx'.ok
             /\ lastTx'.sender = ctorArgs.creator
             /\ BlockTimes[blockTime] >= ctorArgs.endTime
             /\ getQuestionsCount(storage) > 0
        /\ storage.finalized =>
             /\ storage'.finalized
             /\ Anchors(storage') = Anchors(storage)
        /\ (FinalizeStep /\ storage.finalized) => ~lastTx'.ok
        /\ (~storage.finalized /\ ~storage'.finalized) => Anchors(storage') = Anchors(storage)]_vars

\* The survey was finalized with a claim window and a later finalize by the creator failed.
C22_Witness ==
  /\ storage.finalized /\ storage.rulesHash = "r1" /\ storage.claimOpenAt = 30
  /\ lastTx = [fn |-> "finalize", sender |-> "c1", ok |-> FALSE]
  /\ voted # {}

\* ------------------------------------------------------------ properties of the scanner
QueriesOf(pass) == SelectSeq(scan.queries, LAMBDA q : q.pass = pass)

\* max(cursor + 1, configured floor, tail window floor) for the invocation last started
ExpectedStart ==
  LET tailFloor == IF env.ONLY_LAST # 0 THEN latest - env.ONLY_LAST + 1 ELSE 0
  IN  Max(stateRead + 1, Max(env.START, tailFloor))

\* qs are consecutive batches of at most 1000 blocks that start at lo and stay within hi.
Consecutive(qs, lo, hi) ==
  \A i \in 1..Len(qs) :
     /\ qs[i].lo = (IF i = 1 THEN lo ELSE qs[i - 1].hi + 1)
     /\ qs[i].lo <= qs[i].hi
     /\ qs[i].hi - qs[i].lo + 1 <= 1000
     /\ qs[i].hi <= hi

\* qs cover [lo, hi] exactly; nothing when lo > hi.
Covers(qs, lo, hi) ==
  /\ Consecutive(qs, lo, hi)
  /\ IF lo > hi THEN qs = <<>> ELSE qs # <<>> /\ qs[Len(qs)].hi = hi

\* C23: the log queries of an invocation go over [max(cursor+1, configured floor, tail
\* floor), latest] in consecutive batches of at most 1000 blocks, without gap or overlap,
\* in Pass 1 and (when a survey address is known) in Pass 2; when that start is above
\* latest, no query is issued and no log is handed to the reducer or appended to the ledger.
C23_ScanRangeBatched ==
  runs > 0 =>
    /\ Consecutive(QueriesOf(1), ExpectedStart, latest)
    /\ Consecutive(QueriesOf(2), ExpectedStart, latest)
    /\ pc # "pass1" => Covers(QueriesOf(1), ExpectedStart, latest)
    /\ pc \notin {"pass1", "pass2"} =>
         IF knownSurveyAddrs # <<>> THEN Covers(QueriesOf(2), ExpectedStart, latest)
         ELSE QueriesOf(2) = <<>>
    /\ ExpectedStart > latest =>
         /\ scan.queries = <<>>
         /\ scan.handed = {}
         /\ scan.marks[3] = scan.marks[1]

\* An invocation that found its start above the latest height has run to its end.
C23_Witness ==
  /\ pc = "idle" /\ runs >= 2
  /\ ExpectedStart > latest
  /\ scan.queries = <<>>
  /\ stateFile.updatedAt = nowSec(runs)

\* An invocation has scanned [1, 1500] in two batches in each pass.
C23_TwoBatches ==
  /\ pc = "idle"
  /\ Len(QueriesOf(1)) = 2 /\ Len(QueriesOf(2)) = 2
  /\ QueriesOf(1)[1].lo = 1 /\ QueriesOf(1)[1].hi = 1000
  /\ QueriesOf(2)[2].lo = 1001 /\ QueriesOf(2)[2].hi = 1500

\* An invocation with a tail window of 500 blocks has scanned [1001, 1500].
C23_TailWindow ==
  /\ pc = "idle" /\ env.ONLY_LAST = 500
  /\ Len(QueriesOf(1)) = 1
  /\ QueriesOf(1)[1].lo = 1001 /\ QueriesOf(1)[1].hi = 1500

\* The invocation has finished Pass 2 and has not yet rewritten surveys.json.
Pass2Over == runs > 0 /\ pc \in {"funding", "saveBal", "saveSurv"}

\* The survey addresses surveys.json held when the invocation started
PriorKnown == Range(survFile.order)

\* The survey addresses Pass 1 of this invocation registered: those of the SurveyDeployed
\* records it appended to the ledger
RegisteredByPass1 ==
  {ledgerFile[k].survey : k \in {k \in (scan.marks[1] + 1)..scan.marks[2] :
                                   ledgerFile[k].t = "SurveyDeployed"}}

\* The ledger records Pass 2 of this invocation appended
Pass2Records == {ledgerFile[k] : k \in (scan.marks[2] + 1)..scan.marks[3]}

InScannedRange(i) ==
  ChainLogs[i].blockNumber >= fromBlock /\ ChainLogs[i].blockNumber <= toBlock

BatchStep == Len(scan'.queries) = Len(scan.queries) + 1

\* The returned logs whose emitting address is among wanted, in the order returned
LogsFrom(logs, wanted) == SelectSeq(logs, LAMBDA i : ChainLogs[i].address \in wanted)

\* No record of the stores names the stranger survey s9 or its factory F9.
NoStranger ==
  /\ "s9" \notin DOMAIN surveys.rec /\ "s9" \notin Range(knownSurveyAddrs)
  /\ \A k \in 1..Len(ledgerFile) : ledgerFile[k].survey # "s9"

\* C25: whatever logs a query returns, on the multi-address path or on the per-address
\* fallback, a batch leaves the survey store, the balances and the ledger as the logs of
\* the configured factories (Pass 1) or of the known survey addresses (Pass 2) alone
\* would leave them; a log of any other address changes nothing.
C25_OnlyAddressesOfInterest ==
  /\ []NoStranger
  /\ [][BatchStep =>
          IF pc = "pass1"
          THEN LET st == Pass1Fold([surveys |-> surveys, known |-> knownSurveyAddrs,
                                    ledger |-> ledgerFile],
                                   LogsFrom(scan'.returned, Range(FACTORIES)))
               IN  /\ surveys' = st.surveys
                   /\ knownSurveyAddrs' = st.known
                   /\ ledgerFile' = st.ledger
                   /\ balances' = balances
          ELSE LET st == Pass2Fold([surveys |-> surveys, balances |-> balances,
                                    ledger |-> ledgerFile], knownSurveyAddrs,
                                   LogsFrom(scan'.returned, Range(knownSurveyAddrs)))
               IN  /\ surveys' = st.surveys
                   /\ balances' = st.balances
                   /\ ledgerFile' = st.ledger
                   /\ knownSurveyAddrs' = knownSurveyAddrs]_vars

\* A Pass 2 batch whose per-address fallback returned, from a provider that ignores the
\* address filter, logs of the stranger survey s9 next to logs of known surveys (each
\* address's query returning the whole range, hence the repeats).
C25_Witness ==
  /\ pc = "pass2" /\ Len(scan.queries) > 0
  /\ scan.queries[Len(scan.queries)].pass = 2
  /\ \E i \in Range(scan.returned) : ChainLogs[i].address = "s9"
  /\ \E i \in Range(scan.returned) : ChainLogs[i].address \in Range(knownSurveyAddrs)
  /\ Len(scan.returned) > Cardinality(Range(scan.returned))
  /\ scan.marks[3] > scan.marks[2]
  /\ NoStranger

\* A Pass 1 batch on the multi-address path that was handed the SurveyDeployed log of the
\* stranger factory F9.
C25_Pass1Stranger ==
  /\ pc = "pass1" /\ Len(scan.queries) > 0
  /\ \E i \in Range(scan.returned) : ChainLogs[i].address = "F9"
  /\ Len(scan.returned) = Cardinality(Range(scan.returned))
  /\ NoStranger

\* The batch of the scanned range a block height falls in (0 for the lowest)
BatchOf(height) == (height - fromBlock) \div BATCH

\* The ledger records from..to were appended in non-decreasing batch order.
BatchOrdered(from, to) ==
  \A j, k \in from..to : j < k => BatchOf(ledgerFile[j].block) <= BatchOf(ledgerFile[k].block)

StrictlyIncreasing(qs) == \A k \in 1..(Len(qs) - 1) : qs[k].lo < qs[k + 1].lo

\* C26 as stated: among the records the two passes of an invocation append to the
\* ledger, none of a lower-height batch follows one of a higher-height batch.
C26_NeverBackToLowerBatch ==
  (runs > 0 /\ scan.marks[3] <= Len(ledgerFile)) =>
     BatchOrdered(scan.marks[1] + 1, scan.marks[3])

\* C26 (amended): each pass takes its batches in strictly increasing height order, one
\* at a time; within Pass 1, and within Pass 2, no record of a lower-height batch
\* follows one of a higher-height batch; Pass 2 starts again at the lowest batch only
\* after Pass 1 has finished its last.
C26_PerPassOrder ==
  runs > 0 =>
     /\ StrictlyIncreasing(QueriesOf(1)) /\ StrictlyIncreasing(QueriesOf(2))
     /\ \A j, k \in 1..Len(scan.queries) :
           (scan.queries[j].pass = 2 /\ scan.queries[k].pass = 1) => k < j
     /\ scan.marks[3] <= Len(ledgerFile) =>
           /\ BatchOrdered(scan.marks[1] + 1, scan.marks[2])
           /\ BatchOrdered(scan.marks[2] + 1, scan.marks[3])

\* An invocation over two batches: Pass 1 recorded a SurveyDeployed of the second batch,
\* and Pass 2 afterwards recorded events of the first batch and then of the second.
C26_Witness ==
  /\ Pass2Over
  /\ Len(QueriesOf(1)) = 2 /\ Len(QueriesOf(2)) = 2
  /\ scan.marks[1] < scan.marks[2] /\ scan.marks[2] + 1 < scan.marks[3]
  /\ BatchOf(ledgerFile[scan.marks[2]].block) = 1
  /\ BatchOf(ledgerFile[scan.marks[2] + 1].block) = 0
  /\ BatchOf(ledgerFile[scan.marks[3]].block) = 1

\* The step is one broadcast.
BroadcastStep == cast'.n = cast.n + 1

\* C27: a connection that has closed is in no subscriber set and no later broadcast
\* writes to it; a broadcast to survey S writes its payload once to each connection that
\* is open and subscribed to S when it is made, unless that connection's own write
\* fails, and to no other connection: a failed write keeps nothing from the others.
C27_BroadcastToConnected ==
  /\ [](\A c \in Conns :
          /\ conn[c] # "open" => (sseSubs[c] = "" /\ c \notin Range(sseOrder))
          /\ \A j, k \in 1..Len(streams[c]) : j # k => streams[c][j] # streams[c][k])
  /\ [][BroadcastStep =>
          \A c \in Conns :
             streams'[c] =
               IF /\ conn[c] = "open"
                  /\ sseSubs[c] = toLowerCase(cast'.survey)
                  /\ c \notin cast'.failing
               THEN Append(streams[c], cast'.payload)
               ELSE streams[c]]_vars

\* Two subscribers of one survey: the write of the second broadcast to r1 failed and r2
\* still received it; r2 has then closed and the third broadcast was not written to it.
C27_Witness ==
  /\ cast.n = 3
  /\ conn["r1"] = "open" /\ conn["r2"] = "closed"
  /\ sseOrder = <<"r1">>
  /\ streams["r1"] = <<1, 3>> /\ streams["r2"] = <<1, 2>>
  /\ cast.failing = {}

MissingAttesterConfig == boot.cfg.key = "" \/ ~isAddress(boot.cfg.gate)

\* The indexer started without a factory address has stopped before main().
IndexerStoppedAtLoad ==
  (boot.proc = "indexer" /\ ~boot.cfg.factory) =>
     /\ boot.stage \in {"off", "fatal"}
     /\ ~boot.outputs
     /\ runs = 0 /\ scan = NoScan /\ ledgerFile = <<>> /\ stateFile.lastBlock = 0

\* The attester started without its key or without a valid gate address has stopped
\* before listening.
AttesterStoppedAtLoad ==
  (boot.proc = "attester" /\ MissingAttesterConfig) =>
     /\ boot.stage \in {"off", "fatal"}
     /\ ~boot.dirs
     /\ boot.served = 0
     /\ peopleFile = NoFiles /\ anaFile = NoFiles

\* C28: a process started with a required configuration value missing stops at startup
\* before it changes any state: the indexer with no factory address makes no output
\* file and scans nothing, the attestation service with no key or no valid gate address
\* never serves a request.
C28_ConfigFatalAtStartup == IndexerStoppedAtLoad /\ AttesterStoppedAtLoad

\* The attester started with neither key nor gate address has stored a submission.
C28_ServingUnconfigured ==
  /\ boot.proc = "attester" /\ boot.cfg.key = "" /\ boot.cfg.gate = ""
  /\ boot.stage = "up" /\ boot.served > 0
  /\ peopleFile # NoFiles

PushOver == push.pc \in {"done", "exited"}

C30_ToSecRule ==
  tsOut # <<>> =>
    LET thousands == tsIn[1]
        units == tsIn[2]
        above == thousands > 20000000 \/ (thousands = 20000000 /\ units > 0)
    IN  /\ above => tsOut[1] = Wide(thousands \div 1000, thousands % 1000)
        /\ ~above => tsOut[1] = tsIn
        /\ tsIn = Wide(1700000000, 0) => tsOut[1] = Wide(1700000, 0)
        /\ tsIn = Wide(1700000, 0) => tsOut[1] = Wide(1700000, 0)
        /\ thousands <= 2000000 => toSec(ValueOf(tsIn)) = ValueOf(tsOut[1])

\* toSec has returned 1700000000 for 1700000000000.
C30_Witness == tsIn = Wide(1700000000, 0) /\ tsOut = <<Wide(1700000, 0)>>

\* toSec has returned 1700000000 for 1700000000.
C30_SecondsKept == tsIn = Wide(1700000, 0) /\ tsOut = <<Wide(1700000, 0)>>

\* toSec has returned 2e10 for 2e10.
C30_ThresholdKept == tsIn = Wide(20000000, 0) /\ tsOut = <<Wide(20000000, 0)>>

\* C31: the stored value of a timestamp field is its source value normalized once, after
\* the invocation that writes it and after every later invocation.
C31_NormalizedOnce ==
  norm.stored # <<>> => norm.stored[1] = toSecBig(norm.src)

\* The end time 3e13 (a millisecond value of the year 2920) is stored as 3e7 after the
\* invocation that folds it: divided by 1000 twice.
C31_DividedTwice ==
  /\ norm.field = "end" /\ norm.src = Big(30000000, 0, 0)
  /\ norm.runs = 1 /\ norm.stored = <<Big(30, 0, 0)>>

\* For source values up to 2e13 the stored value is the once-normalized one and stays.
C31_HoldsBelow2e13 ==
  (norm.stored # <<>> /\ (norm.src[1] < 20000000 \/ norm.src = Big(20000000, 0, 0))) =>
     /\ norm.stored[1] = toSecBig(norm.src)
     /\ norm.listed[1] = toSecBig(norm.src)

\* The step is an enrichment pass.
EnrichStep == metaSt'.runs = metaSt.runs + 1

\* The document has the content the hash was taken of: the same pairs, in any order.
SameContent(doc, h) ==
  /\ Len(doc) = Len(h.of)
  /\ {doc[i] : i \in 1..Len(doc)} = {h.of[i] : i \in 1..Len(h.of)}

\* C32: after every enrichment pass metaValid is true exactly when the metadata file is
\* present and parses, the survey has a recorded content hash, and the document's
\* canonical form hashes to it, whatever metaValid was before the pass; without a
\* document the record gets title Untitled, an empty summary, reward 0 and
\* metaValid false.
C32_ValidWhenHashMatches ==
  [][EnrichStep =>
       LET file == metaSt.file
           rec == metaSt'.rec[1]
           present == file.kind = "json"
       IN  /\ rec.metaValid = (/\ present
                               /\ ~metaSt.metaHash.empty
                               /\ SameContent(file.doc, metaSt.metaHash))
           /\ ~present => /\ rec.title = "Untitled" /\ rec.summary = ""
                          /\ rec.plannedRewardEth = "0" /\ ~rec.metaValid]_vars

\* A document whose keys are not in sorted order matched the hash recorded in upper
\* case; the file was then removed and the next pass has set the placeholders.
C32_Witness ==
  /\ metaSt.runs = 2 /\ metaSt.file = NoFile
  /\ metaSt.metaHash.upper
  /\ metaSt.before # <<>> /\ metaSt.before[1].metaValid
  /\ metaSt.rec = <<[title |-> "Untitled", summary |-> "", plannedRewardEth |-> "0",
                     metaValid |-> FALSE]>>

\* The logs of recorded surveys in the blocks scanned up to the persisted cursor
CoveredLogs(name) ==
  {i \in inRange : /\ ChainLogs[i].name = name
                   /\ ChainLogs[i].blockNumber <= stateFile.lastBlock
                   /\ ChainLogs[i].address \in DOMAIN survFile.rec}

\* What one uninterrupted invocation over the blocks up to the cursor leaves in the files
FilesOfOneRun ==
  /\ \A v \in Voters :
       balFile[v] = Cardinality({i \in CoveredLogs("Voted") : ChainLogs[i].voter = v})
  /\ \A a \in DOMAIN survFile.rec :
       /\ survFile.rec[a].prizeFunded =
            SumAmounts({i \in CoveredLogs("PrizeFunded") : ChainLogs[i].address = a})
       /\ survFile.rec[a].prizeSwept =
            SumAmounts({i \in CoveredLogs("PrizeSwept") : ChainLogs[i].address = a})

\* The invocation started last has run to its end.
RanToCompletion == pc = "idle" /\ runs > 0 /\ pubGen["STATE"] = runs

\* C33: once an invocation has run to its end, the voter balances and prizeFunded /
\* prizeSwept are those of one uninterrupted run over the same blocks, whether or not an
\* earlier invocation was interrupted, in particular between writing surveys.json and
\* writing state.json.
C33_CrashSafe == RanToCompletion => FilesOfOneRun

\* Without an interruption the files are those of one run over the scanned blocks.
C33_UninterruptedExact == (RanToCompletion /\ crash.n = 0) => FilesOfOneRun

\* An invocation was interrupted after surveys.json and before state.json, and the next
\* one has run to its end.
C33_InterruptedBeforeState ==
  RanToCompletion /\ crash.n = 1 /\ crash.at \in {"saveList", "saveGates", "saveState"}

C35_OneSurveyPerFundingTx ==
  \A a \in DOMAIN fund.surveys.rec, b \in DOMAIN fund.surveys.rec :
    (a # b /\ fund.surveys.rec[a].fundingTxHash # "null")
       => fund.surveys.rec[a].fundingTxHash # fund.surveys.rec[b].fundingTxHash

\* A record's fundingTxHash is that of a transaction the acceptance test passes for it.
C35_EachHashAccepted ==
  \A a \in DOMAIN fund.surveys.rec :
    fund.surveys.rec[a].funded =>
      /\ fund.surveys.rec[a].fundingTxHash \in TxIds
      /\ \E head \in LatestChoices :
           FundingAccepts(fund.surveys.rec[a], fund.surveys.rec[a].fundingTxHash, head)

RECURSIVE SumAges(_, _)
SumAges(ages, keys) ==
  IF keys = {} THEN 0
  ELSE LET k == CHOOSE x \in keys : TRUE IN ages[k] + SumAges(ages, keys \ {k})

\* C36: in every stored analytics document every row has kycOk <= count and the sum of
\* its age-bucket counts <= count.
C36_RowsWithinCount ==
  \A s \in DOMAIN anaFile :
    \A i \in 1..Len(anaFile[s].rows) :
      LET row == anaFile[s].rows[i]
      IN  /\ row.kycOk <= row.count
          /\ SumAges(row.ageBuckets, AgeBucketKeys) <= row.count

\* What a subscriber holds after adding up the delta records of its stream per
\* (region, country)
RECURSIVE AddUp(_, _, _)
AddUp(stream, key, fld) ==
  IF stream = <<>> THEN 0
  ELSE LET row == Head(stream).row
           v == IF fld \in AgeBucketKeys THEN row.ageBuckets[fld] ELSE row[fld]
       IN  (IF <<row.region, row.country>> = key THEN v ELSE 0) + AddUp(Tail(stream), key, fld)

SubscriberRows(stream) ==
  { [region |-> key[1], country |-> key[2],
     count |-> AddUp(stream, key, "count"),
     kycOk |-> AddUp(stream, key, "kycOk"),
     ageBuckets |-> [b \in AgeBucketKeys |-> AddUp(stream, key, b)]]
    : key \in {<<stream[i].row.region, stream[i].row.country>> : i \in 1..Len(stream)} }

\* C37: a subscriber of a survey's stream connected since before the first submission
\* holds, after adding up the deltas written to it, exactly the rows the snapshot
\* endpoint returns for that survey.
C37_StreamSumsToSnapshot ==
  conn["r1"] = "open" =>
    SubscriberRows(streams["r1"]) = Range(getAnalytics(anaFile, "0xA1", 0).rows)

\* Two deltas were written to the subscriber and the snapshot has two rows.
C37_Witness ==
  /\ conn["r1"] = "open" /\ Len(streams["r1"]) = 2
  /\ Len(getAnalytics(anaFile, "0xA1", 0).rows) = 2

\* C38: once the survey is finalized no vote or voteWithGate transaction succeeds, so the
\* participant count stays the one the Finalized event reported.
C38_NoVoteAfterFinalize ==
  [][storage.finalized => storage'.participants = storage.participants]_vars

\* After finalization no vote succeeds in a block whose timestamp is past endTime.
C38_NoVoteAfterEndTime ==
  [][(storage.finalized /\ BlockTimes[blockTime] > storage.endTime)
        => storage'.participants = storage.participants]_vars

\* The signature handed to the last verify call is the gate's attester's signature over
\* exactly the call's arguments and the gate's chain id, under the domain of the gate's
\* address and chain.
AttesterSignedCall ==
  LET c == gateSt.call[1]
      g == gateSt.gate
  IN  /\ c.off.sig # <<>>
      /\ AddressOf(c.off.sig[1].by) = g.attester
      /\ c.off.sig[1].over =
           << [name |-> "DScopeEligibility", version |-> "1", chainId |-> g.chainid,
               verifyingContract |-> g.addr],
              [user |-> c.account, survey |-> c.survey, nullifier |-> c.nullifier,
               deadline |-> c.deadline, chainId |-> g.chainid] >>

\* C39: verify returns true exactly when block time <= deadline and the signature is the
\* attester's over exactly (account, survey, nullifier, deadline, chain id) under the
\* domain of this gate and chain: a signature the signer issued is accepted for the
\* values, chain and gate it was issued for, until it expires, and for nothing else.
C39_EndToEndEligibility ==
  gateSt.call # <<>> =>
    (gateSt.call[1].result = (gateSt.call[1].at <= gateSt.call[1].deadline /\ AttesterSignedCall))

\* The same for the gate of part_004, which computes its type hash from the type string.
C39_ComputedTypeHashGate ==
  (gateSt.call # <<>> /\ gateSt.gate.impl = "part_004") =>
    (gateSt.call[1].result = (gateSt.call[1].at <= gateSt.call[1].deadline /\ AttesterSignedCall))

\* The gate of part_004 has accepted the signature the signer issued, at the block whose
\* timestamp is the deadline.
C39_IssuedAccepted ==
  /\ gateSt.call # <<>> /\ gateSt.issued # <<>> /\ gateSt.gate.impl = "part_004"
  /\ gateSt.call[1].result /\ gateSt.call[1].at = gateSt.call[1].deadline
  /\ gateSt.call[1].off.sig = gateSt.issued[1].signature

====
